---- MODULE Spec2Model ----
(***************************************************************************)
(* Model of the fidl front end's Module (system/host/fidl/module.h and its *)
(* implementation): the Consume pass that flattens a parsed File into the  *)
(* declaration tables and the name registry, the Resolve pass that checks  *)
(* references and computes TypeShapes, and Dump.                           *)
(*                                                                         *)
(* size_t, uint64_t and int64_t values are kept at their 64-bit width as   *)
(* little-endian sequences of WordLimbs limbs in base LimbBase, so that    *)
(* every wrap-around of the code's arithmetic is a wrap-around here.       *)
(***************************************************************************)
EXTENDS Integers, Sequences, FiniteSets, TLC

\* ------------------------------------------------------------------------
\* 64-bit words
\* ------------------------------------------------------------------------

\* A 64-bit word is WordLimbs limbs of one byte each.
WordLimbs == 8
LimbBase == 256

RECURSIVE NatLimbs(_, _)
\* The n lowest limbs of the natural number v.
NatLimbs(v, n) ==
    IF n = 0 THEN <<>> ELSE <<v % LimbBase>> \o NatLimbs(v \div LimbBase, n - 1)

\* The word holding the (small) natural number v.
U64(v) == NatLimbs(v, WordLimbs)

\* std::numeric_limits<uint64_t>::max(), <uint32_t>::max(), <int64_t>::max().
Uint64Max == [i \in 1..WordLimbs |-> LimbBase - 1]
Uint32Max == [i \in 1..WordLimbs |-> IF 2 * i <= WordLimbs THEN LimbBase - 1 ELSE 0]
Int64Max == [i \in 1..WordLimbs |-> IF i = WordLimbs THEN (LimbBase \div 2) - 1 ELSE LimbBase - 1]
\* The magnitude of std::numeric_limits<int64_t>::min().
Int64MinMagnitude == [i \in 1..WordLimbs |-> IF i = WordLimbs THEN LimbBase \div 2 ELSE 0]

RECURSIVE LimbsLess(_, _, _)
\* a < b on limb sequences of equal length, compared from limb i downwards.
LimbsLess(a, b, i) ==
    IF i = 0 THEN FALSE
    ELSE IF a[i] # b[i] THEN a[i] < b[i]
    ELSE LimbsLess(a, b, i - 1)

Less(a, b) == LimbsLess(a, b, Len(a))
\* std::max on size_t.
Max(a, b) == IF Less(a, b) THEN b ELSE a

RECURSIVE AddLimbs(_, _, _, _)
\* a + b + carry from limb i upwards; the result has one limb more than a:
\* its last limb is the carry out.
AddLimbs(a, b, carry, i) ==
    IF i > Len(a) THEN <<carry>>
    ELSE LET v == a[i] + b[i] + carry
         IN  <<v % LimbBase>> \o AddLimbs(a, b, v \div LimbBase, i + 1)

\* a + b modulo 2^64 (unsigned arithmetic of the code).
Add(a, b) == SubSeq(AddLimbs(a, b, 0, 1), 1, Len(a))
\* a - 1 modulo 2^64.
Pred(a) == Add(a, Uint64Max)
\* 0 - a modulo 2^64 (the negation strtoull applies to a "-" literal).
Neg(a) == Add([i \in 1..Len(a) |-> LimbBase - 1 - a[i]], U64(1))

RECURSIVE MulAddLimbs(_, _, _, _)
\* a * m + carry for a small natural m, from limb i upwards; one limb more
\* than a.
MulAddLimbs(a, m, carry, i) ==
    IF i > Len(a) THEN <<carry>>
    ELSE LET v == a[i] * m + carry
         IN  <<v % LimbBase>> \o MulAddLimbs(a, m, v \div LimbBase, i + 1)

\* k zero limbs.
Zeros(k) == [i \in 1..k |-> 0]

RECURSIVE MulWideFrom(_, _, _)
\* The sum over j >= i of a * b[j] * LimbBase^(j-1), as 2 * WordLimbs limbs.
MulWideFrom(a, b, j) ==
    IF j > Len(b) THEN Zeros(2 * Len(a))
    ELSE LET row == Zeros(j - 1) \o MulAddLimbs(a, b[j], 0, 1) \o Zeros(Len(a) - j)
         IN  SubSeq(AddLimbs(row, MulWideFrom(a, b, j + 1), 0, 1), 1, 2 * Len(a))

\* The mathematical product a * b, 2 * WordLimbs limbs wide.
MulWide(a, b) == MulWideFrom(a, b, 1)
\* a * b modulo 2^64: what size_t multiplication computes.
Mul(a, b) == SubSeq(MulWide(a, b), 1, Len(a))
\* Whether the mathematical product a * b fits in 64 bits.
MulFits(a, b) == SubSeq(MulWide(a, b), Len(a) + 1, 2 * Len(a)) = Zeros(Len(a))

RECURSIVE AndBits(_, _, _)
\* Bitwise and of two limbs, n bits of them.
AndBits(x, y, n) ==
    IF n = 0 THEN 0
    ELSE (x % 2) * (y % 2) + 2 * AndBits(x \div 2, y \div 2, n - 1)

\* a & b on words.
And(a, b) == [i \in 1..Len(a) |-> AndBits(a[i], b[i], 8)]
\* ~a on words.
Not(a) == [i \in 1..Len(a) |-> LimbBase - 1 - a[i]]

\* ------------------------------------------------------------------------
\* State
\* ------------------------------------------------------------------------

VARIABLES
    const_infos_,       \* Module::const_infos_
    enum_infos_,        \* Module::enum_infos_
    interface_infos_,   \* Module::interface_infos_
    struct_infos_,      \* Module::struct_infos_
    union_infos_,       \* Module::union_infos_
    registered_types_,  \* Module::registered_types_
    resolved_types_,    \* Module::resolved_types_
    pc,                 \* where the running Parse call stands
    ast,                \* the File the parser handed to the last Parse call
    file,               \* the File being consumed: what has not been moved out yet
    cursor,             \* Resolve's position: <<category, index>>
    parse_result,       \* what the last finished Parse call returned
    history,            \* the registry calls of the running Parse call, in order
    corpus,             \* the declarations the driver's source files are written from
    budget,             \* declarations the driver may still submit
    strto_einval,       \* whether the C library's strtoull/strtoll set errno when
                        \* no digit is converted (implementation-defined)
    rt_type,            \* the type node ResolveType is applied to
    rt_out,             \* ... the TypeShape behind out_typeshape
    rt_ok,              \* ... its return value, or "pending" before the call
    scope_object,       \* Scope::scope_ of a Scope object used on its own
    scope_calls         \* the Insert calls made on it: <<key, return value>>, in order

module_vars == <<const_infos_, enum_infos_, interface_infos_, struct_infos_,
                 union_infos_, registered_types_, resolved_types_>>
parse_vars == <<pc, ast, file, cursor, parse_result, history, corpus, budget>>
rt_vars == <<rt_type, rt_out, rt_ok>>
scope_vars == <<scope_object, scope_calls>>
vars == <<module_vars, parse_vars, strto_einval, rt_vars, scope_vars>>

\* ------------------------------------------------------------------------
\* Integer literals and constants
\* ------------------------------------------------------------------------

\* The value of the character c as a digit; 99 when c is no digit of any base.
DigitValue(c) ==
    CASE c = "0" -> 0 [] c = "1" -> 1 [] c = "2" -> 2 [] c = "3" -> 3
      [] c = "4" -> 4 [] c = "5" -> 5 [] c = "6" -> 6 [] c = "7" -> 7
      [] c = "8" -> 8 [] c = "9" -> 9 [] c = "a" -> 10 [] c = "b" -> 11
      [] c = "c" -> 12 [] c = "d" -> 13 [] c = "e" -> 14 [] c = "f" -> 15
      [] OTHER -> 99

RECURSIVE Accumulate(_, _, _, _, _, _)
\* The digit loop of strtoull/strtoll: consumes digits of `base` from s[i],
\* acc = acc * base + digit, remembering whether the value left 64 bits and
\* whether any digit was converted.
Accumulate(s, i, base, acc, overflow, any) ==
    IF i > Len(s) \/ DigitValue(s[i]) >= base
    THEN [magnitude |-> acc, overflow |-> overflow, any |-> any]
    ELSE LET wide == MulAddLimbs(acc, base, DigitValue(s[i]), 1)
         IN  Accumulate(s, i + 1, base, SubSeq(wide, 1, WordLimbs),
                        overflow \/ wide[WordLimbs + 1] # 0, TRUE)

\* Whether the text starts with a sign.
HasSign(s) == Len(s) >= 1 /\ s[1] \in {"-", "+"}

\* Whether the text has, at first, the prefix 0x and a hexadecimal digit.
HasHexPrefix(s, first) ==
    /\ Len(s) >= first + 2
    /\ s[first] = "0"
    /\ s[first + 1] = "x"
    /\ DigitValue(s[first + 2]) < 16

\* The digits of base 0 text that start at first: base 16 after 0x, base 8
\* after 0, base 10 otherwise.
ScanDigits(s, first) ==
    IF HasHexPrefix(s, first)
    THEN Accumulate(s, first + 2, 16, U64(0), FALSE, FALSE)
    ELSE Accumulate(s, first, IF Len(s) >= first /\ s[first] = "0" THEN 8 ELSE 10,
                    U64(0), FALSE, FALSE)

\* The scan strtoull and strtoll share for base 0: an optional sign, then
\* the digits.
Scan(s) ==
    [negative |-> HasSign(s) /\ s[1] = "-",
     digits |-> ScanDigits(s, IF HasSign(s) THEN 2 ELSE 1)]

\* What strtoull makes of a scan: the value and whether errno was set.
UnsignedResult(scan) ==
    IF scan.digits.overflow THEN [value |-> Uint64Max, negative |-> FALSE, errno |-> TRUE]
    ELSE IF ~scan.digits.any
    THEN [value |-> U64(0), negative |-> FALSE, errno |-> strto_einval]
    ELSE [value |-> IF scan.negative THEN Neg(scan.digits.magnitude)
                    ELSE scan.digits.magnitude,
          negative |-> FALSE, errno |-> FALSE]

\* strtoull(s, nullptr, 0).
StrToULL(s) == UnsignedResult(Scan(s))

\* What strtoll makes of a scan: the value as sign and magnitude, and
\* whether errno was set.
SignedResult(scan) ==
    IF \/ scan.digits.overflow
       \/ Less(IF scan.negative THEN Int64MinMagnitude ELSE Int64Max, scan.digits.magnitude)
    THEN [value |-> IF scan.negative THEN Int64MinMagnitude ELSE Int64Max,
          negative |-> scan.negative, errno |-> TRUE]
    ELSE IF ~scan.digits.any
    THEN [value |-> U64(0), negative |-> FALSE, errno |-> strto_einval]
    ELSE [value |-> scan.digits.magnitude,
          negative |-> scan.negative /\ scan.digits.magnitude # U64(0),
          errno |-> FALSE]

\* strtoll(s, nullptr, 0).
StrToLL(s) == SignedResult(Scan(s))

\* No literal, no constant, no type: a null unique_ptr.
Null == [kind |-> "Null"]

\* What ParseIntegerLiteral and ParseIntegerConstant return: [ok, value,
\* negative]. value is the word stored in *out_value (its magnitude for a
\* negative int64_t).
ParseFailure == [ok |-> FALSE, value |-> U64(0), negative |-> FALSE]

\* The checks of ParseIntegerLiteral on what strtoull or strtoll returned,
\* max being std::numeric_limits<IntType>::max().
Checked(r, max) ==
    IF r.errno THEN ParseFailure
    ELSE IF ~r.negative /\ Less(max, r.value) THEN ParseFailure
    ELSE [ok |-> TRUE, value |-> r.value, negative |-> r.negative]

ParseIntegerLiteral(literal, IntType) ==
    IF literal = Null THEN ParseFailure
    ELSE IF IntType = "uint32_t" THEN Checked(StrToULL(literal.literal), Uint32Max)
    ELSE IF IntType = "uint64_t" THEN Checked(StrToULL(literal.literal), Uint64Max)
    ELSE Checked(StrToLL(literal.literal), Int64Max)

\* The value ParseIntegerConstant yields for every identifier constant.
IdentifierPlaceholder == 23

\* A ParseIntegerConstant that cannot evaluate an identifier.
ParseIntegerConstantRejectingIdentifiers(constant, IntType) ==
    IF constant = Null THEN ParseFailure
    ELSE IF constant.kind = "Identifier" THEN ParseFailure
    ELSE IF constant.literal.kind \in {"String", "True", "False", "Default"}
    THEN ParseFailure
    ELSE ParseIntegerLiteral(constant.literal, IntType)

ParseIntegerConstant(constant, IntType) ==
    IF constant = Null THEN ParseFailure
    ELSE IF constant.kind = "Identifier"
    THEN [ok |-> TRUE, value |-> U64(IdentifierPlaceholder), negative |-> FALSE]
    ELSE IF constant.literal.kind \in {"String", "True", "False", "Default"}
    THEN ParseFailure
    ELSE ParseIntegerLiteral(constant.literal, IntType)

\* ------------------------------------------------------------------------
\* Type shapes
\* ------------------------------------------------------------------------

\* The condition the TypeShape constructor asserts of its alignment.
MustBePowerOf2(alignment) ==
    And(alignment, Pred(alignment)) = U64(0) /\ alignment # U64(0)

\* TypeShape(size, alignment, allocations).
TypeShape3(size, alignment, allocations) ==
    [size |-> size, alignment |-> alignment, allocations |-> allocations]
\* TypeShape(size, alignment): no allocations.
TypeShape2(size, alignment) == TypeShape3(size, alignment, <<>>)
\* TypeShape(): size 0, alignment 1.
TypeShape0 == [size |-> U64(0), alignment |-> U64(1), allocations |-> <<>>]

\* Allocation(typeshape, bound); SizeMax is the default bound.
SizeMax == Uint64Max
Allocation(typeshape, bound) == [typeshape |-> typeshape, bound |-> bound]

kHandleTypeShape == TypeShape2(U64(4), U64(4))
kInt8TypeShape == TypeShape2(U64(1), U64(1))
kInt16TypeShape == TypeShape2(U64(2), U64(2))
kInt32TypeShape == TypeShape2(U64(4), U64(4))
kInt64TypeShape == TypeShape2(U64(8), U64(8))
kUint8TypeShape == TypeShape2(U64(1), U64(1))
kUint16TypeShape == TypeShape2(U64(2), U64(2))
kUint32TypeShape == TypeShape2(U64(4), U64(4))
kUint64TypeShape == TypeShape2(U64(8), U64(8))
\* A bool laid out as an int: four bytes.
kBoolTypeShapeAsInt == TypeShape2(U64(4), U64(4))
kBoolTypeShape == TypeShape2(U64(1), U64(1))
kFloat32TypeShape == TypeShape2(U64(4), U64(4))
kFloat64TypeShape == TypeShape2(U64(8), U64(8))

ArrayTypeShape(element, count) ==
    TypeShape2(Mul(element.size, count), element.alignment)

\* A UnionShape whose alignment is the sum of the two alignments.
UnionShapeAddingAlignments(left, right) ==
    LET size == Max(left.size, right.size)
        alignment == Add(left.alignment, right.alignment)
    IN  TypeShape2(And(Add(size, Pred(alignment)), Not(Pred(alignment))), alignment)

UnionShape(left, right) ==
    LET size == Max(left.size, right.size)
        alignment == Max(left.alignment, right.alignment)
    IN  TypeShape2(And(Add(size, Pred(alignment)), Not(Pred(alignment))), alignment)

\* ------------------------------------------------------------------------
\* Type resolution
\* ------------------------------------------------------------------------

\* PrimitiveType::Subtype.
PrimitiveSubtypes ==
    {"Int8", "Int16", "Int32", "Int64", "Uint8", "Uint16", "Uint32", "Uint64",
     "Bool", "Float32", "Float64"}

\* Module::ResolveTypeName: a lookup in the registry and nothing else.
ResolveTypeName(name, registered) == name \in registered

\* What a resolver returns: its bool and the TypeShape behind out_typeshape
\* when it returns.
Resolved(ok, typeshape) == [ok |-> ok, typeshape |-> typeshape]

ResolveHandleType(handle_type, out) == Resolved(TRUE, kHandleTypeShape)

ResolveRequestType(request_type, registered, out) ==
    IF ~ResolveTypeName(request_type.subtype, registered) THEN Resolved(FALSE, out)
    ELSE Resolved(TRUE, kHandleTypeShape)

ResolvePrimitiveType(primitive_type, out) ==
    Resolved(TRUE,
        CASE primitive_type.subtype = "Int8" -> kInt8TypeShape
          [] primitive_type.subtype = "Int16" -> kInt16TypeShape
          [] primitive_type.subtype = "Int32" -> kInt32TypeShape
          [] primitive_type.subtype = "Int64" -> kInt64TypeShape
          [] primitive_type.subtype = "Uint8" -> kUint8TypeShape
          [] primitive_type.subtype = "Uint16" -> kUint16TypeShape
          [] primitive_type.subtype = "Uint32" -> kUint32TypeShape
          [] primitive_type.subtype = "Uint64" -> kUint64TypeShape
          [] primitive_type.subtype = "Bool" -> kBoolTypeShape
          [] primitive_type.subtype = "Float32" -> kFloat32TypeShape
          [] primitive_type.subtype = "Float64" -> kFloat64TypeShape)

\* A ResolveIdentifierType that writes a shape for the name it found.
ResolveIdentifierTypeAsHandle(identifier_type, registered, out) ==
    IF identifier_type.identifier \notin registered THEN Resolved(FALSE, out)
    ELSE Resolved(TRUE, kHandleTypeShape)

ResolveIdentifierType(identifier_type, registered, out) ==
    IF ~ResolveTypeName(identifier_type.identifier, registered) THEN Resolved(FALSE, out)
    ELSE Resolved(TRUE, out)

\* value < 0 on a parsed int64_t: a comparison that lets zero through.
NegativeOnly(value) == value.negative
\* value <= 0 on a parsed int64_t.
NotPositive(value) == value.negative \/ value.value = U64(0)

\* The bound check ResolveVectorType and ResolveStringType share: TRUE when
\* there is no bound, or the bound parses as an int64_t and is positive.
BoundParsed(value) == value.ok /\ ~NotPositive(value)
BoundAccepted(maybe_element_count) ==
    IF maybe_element_count = Null THEN TRUE
    ELSE BoundParsed(ParseIntegerConstant(maybe_element_count, "int64_t"))

ResolveStringType(string_type, out) ==
    Resolved(BoundAccepted(string_type.maybe_element_count), out)

\* ResolveArrayType after its element type was resolved into element and
\* its count was parsed into element_count.
ResolveArrayTypeWith(element, element_count, out) ==
    IF ~element.ok THEN Resolved(FALSE, out)
    ELSE IF ~element_count.ok THEN Resolved(FALSE, out)
    ELSE IF element_count.value = U64(0) THEN Resolved(FALSE, out)
    ELSE Resolved(TRUE, ArrayTypeShape(element.typeshape, element_count.value))

\* ResolveArrayType after its element type was resolved into element.
ResolveArrayTypeOf(array_type, element, out) ==
    ResolveArrayTypeWith(element,
                         ParseIntegerConstant(array_type.element_count, "uint64_t"), out)

\* ResolveVectorType after its element type was resolved into element.
ResolveVectorTypeOf(vector_type, element, out) ==
    IF ~element.ok THEN Resolved(FALSE, out)
    ELSE Resolved(BoundAccepted(vector_type.maybe_element_count), out)

RECURSIVE ResolveType(_, _, _)
\* Module::ResolveType(type, out_typeshape), with *out_typeshape = out at
\* the call. The element of an array or a vector is resolved into a fresh
\* local TypeShape.
ResolveType(type, registered, out) ==
    CASE type.kind = "Array" ->
            ResolveArrayTypeOf(type, ResolveType(type.element_type, registered, TypeShape0), out)
      [] type.kind = "Vector" ->
            ResolveVectorTypeOf(type, ResolveType(type.element_type, registered, TypeShape0), out)
      [] type.kind = "String" -> ResolveStringType(type, out)
      [] type.kind = "Handle" -> ResolveHandleType(type, out)
      [] type.kind = "Request" -> ResolveRequestType(type, registered, out)
      [] type.kind = "Primitive" -> ResolvePrimitiveType(type, out)
      [] type.kind = "Identifier" -> ResolveIdentifierType(type, registered, out)

\* Module::ResolveType(type): the overload that resolves into a local
\* TypeShape and drops it.
ResolveTypeOnly(type, registered) == ResolveType(type, registered, TypeShape0).ok

\* ------------------------------------------------------------------------
\* AST nodes handed in by the parser
\* ------------------------------------------------------------------------

\* The text of numeric literal tokens, one character per element.
Lit0 == <<"0">>
Lit1 == <<"1">>
Lit2 == <<"2">>
Lit4 == <<"4">>
Lit5 == <<"5">>
LitMinus1 == <<"-", "1">>
LitEmpty == <<>>
LitHex10 == <<"0", "x", "1", "0">>
LitUint32Max == <<"4", "2", "9", "4", "9", "6", "7", "2", "9", "5">>
Lit2p32 == <<"4", "2", "9", "4", "9", "6", "7", "2", "9", "6">>
Lit2p61 == <<"2", "3", "0", "5", "8", "4", "3", "0", "0", "9", "2", "1", "3", "6", "9", "3", "9", "5", "2">>
LitInt64Max == <<"9", "2", "2", "3", "3", "7", "2", "0", "3", "6", "8", "5", "4", "7", "7", "5", "8", "0", "7">>
Lit2p63 == <<"9", "2", "2", "3", "3", "7", "2", "0", "3", "6", "8", "5", "4", "7", "7", "5", "8", "0", "8">>
LitUint64Max == <<"1", "8", "4", "4", "6", "7", "4", "4", "0", "7", "3", "7", "0", "9", "5", "5", "1", "6", "1", "5">>
Lit2p64 == <<"1", "8", "4", "4", "6", "7", "4", "4", "0", "7", "3", "7", "0", "9", "5", "5", "1", "6", "1", "6">>

NumericLiteral(data) == [kind |-> "Numeric", literal |-> data]
LiteralConstant(literal) == [kind |-> "Literal", literal |-> literal]
NumericConstant(data) == LiteralConstant(NumericLiteral(data))
IdentifierConstant(identifier) == [kind |-> "Identifier", identifier |-> identifier]

PrimitiveType(subtype) == [kind |-> "Primitive", subtype |-> subtype]
HandleType == [kind |-> "Handle"]
RequestType(subtype) == [kind |-> "Request", subtype |-> subtype]
IdentifierType(identifier) == [kind |-> "Identifier", identifier |-> identifier]
StringType(maybe_element_count) ==
    [kind |-> "String", maybe_element_count |-> maybe_element_count]
ArrayType(element_type, element_count) ==
    [kind |-> "Array", element_type |-> element_type, element_count |-> element_count]
VectorType(element_type, maybe_element_count) ==
    [kind |-> "Vector", element_type |-> element_type,
     maybe_element_count |-> maybe_element_count]

\* Declarations. const_members and enum_members are the const and enum
\* declarations nested in an interface or a struct.
ConstDeclaration(identifier, type, constant) ==
    [node |-> "const", identifier |-> identifier, type |-> type, constant |-> constant]
EnumDeclaration(identifier, maybe_subtype, members) ==
    [node |-> "enum", identifier |-> identifier, maybe_subtype |-> maybe_subtype,
     members |-> members]
ParameterList(parameter_list) == [parameter_list |-> parameter_list]
Parameter(type, identifier) == [type |-> type, identifier |-> identifier]
MethodDeclaration(ordinal, identifier, parameter_list, maybe_response) ==
    [ordinal |-> ordinal, identifier |-> identifier, parameter_list |-> parameter_list,
     maybe_response |-> maybe_response]
InterfaceDeclaration(identifier, const_members, enum_members, method_members) ==
    [node |-> "interface", identifier |-> identifier, const_members |-> const_members,
     enum_members |-> enum_members, method_members |-> method_members]
StructMember(type, identifier) ==
    [type |-> type, identifier |-> identifier, maybe_default_value |-> Null]
StructDeclaration(identifier, const_members, enum_members, members) ==
    [node |-> "struct", identifier |-> identifier, const_members |-> const_members,
     enum_members |-> enum_members, members |-> members]
UnionMember(type, identifier) == [type |-> type, identifier |-> identifier]
UnionDeclaration(identifier, members) ==
    [node |-> "union", identifier |-> identifier, members |-> members]

\* The declaration categories, in the order ConsumeFile and Resolve walk them.
Categories == <<"const", "enum", "interface", "struct", "union">>
CategoryIndex(node) == CHOOSE k \in 1..Len(Categories) : Categories[k] = node

\* The File whose declarations are those of the sequence decls, each in the
\* list of its category.
File(decls) ==
    LET of(node) == SelectSeq(decls, LAMBDA d : d.node = node)
    IN  [const_declaration_list |-> of("const"),
         enum_declaration_list |-> of("enum"),
         interface_declaration_list |-> of("interface"),
         struct_declaration_list |-> of("struct"),
         union_declaration_list |-> of("union")]

\* The declarations of a File, in the order ConsumeFile walks them.
Declarations(f) ==
    f.const_declaration_list \o f.enum_declaration_list \o f.interface_declaration_list
    \o f.struct_declaration_list \o f.union_declaration_list

\* ------------------------------------------------------------------------
\* Consume: flattening a File into the Module's tables
\* ------------------------------------------------------------------------

\* One call of the registry or of the resolved-shape map, as history keeps it.
Call(call, name, result) == [call |-> call, name |-> name, result |-> result]

\* A registry that reports success for a name it already holds.
RegisterTypeNameOverwriting(name, registered) ==
    [ok |-> TRUE, registered |-> registered \cup {name}]

\* Module::RegisterTypeName: std::set::insert and whether it inserted.
RegisterTypeName(name, registered) ==
    [ok |-> name \notin registered, registered |-> registered \cup {name}]

\* The Module's tables and registry as one value m, with m.ok the return
\* value of the Consume call that produced it and m.calls what it called.
ModuleState ==
    [const_infos_ |-> const_infos_, enum_infos_ |-> enum_infos_,
     interface_infos_ |-> interface_infos_, struct_infos_ |-> struct_infos_,
     union_infos_ |-> union_infos_, registered_types_ |-> registered_types_,
     ok |-> TRUE, calls |-> <<>>]

\* A Consume call that drops the return value of RegisterTypeName and
\* stores the record whatever it was.
StoreUnconditionally(m, name, table, info) ==
    [m EXCEPT !.registered_types_ = @ \cup {name},
              ![table] = Append(@, info),
              !.calls = Append(@, Call("RegisterTypeName", name, name \notin m.registered_types_))]

\* A Consume call that stores the record before it registers the name, and
\* so keeps the record of a name that was refused.
StoreThenRegister(m, name, table, info) ==
    [m EXCEPT !.ok = name \notin m.registered_types_,
              !.registered_types_ = @ \cup {name},
              ![table] = Append(@, info),
              !.calls = Append(@, Call("RegisterTypeName", name, name \notin m.registered_types_))]

\* RegisterTypeName(name) inside a Consume call, then the emplace_back of
\* info into table when the name was new.
RegisterAndStore(m, name, table, info) ==
    IF ~RegisterTypeName(name, m.registered_types_).ok
    THEN [m EXCEPT !.ok = FALSE,
                   !.calls = Append(@, Call("RegisterTypeName", name, FALSE))]
    ELSE [m EXCEPT !.registered_types_ = RegisterTypeName(name, @).registered,
                   ![table] = Append(@, info),
                   !.calls = Append(@, Call("RegisterTypeName", name, TRUE))]

ConsumeConstDeclaration(m, const_declaration) ==
    RegisterAndStore(m, const_declaration.identifier, "const_infos_",
        [name |-> const_declaration.identifier,
         type |-> const_declaration.type,
         value |-> const_declaration.constant])

\* The EnumInfo of an enum declaration: uint32 when it names no subtype.
EnumInfo(enum_declaration) ==
    [name |-> enum_declaration.identifier,
     type |-> IF enum_declaration.maybe_subtype = Null THEN PrimitiveType("Uint32")
              ELSE enum_declaration.maybe_subtype,
     members |-> [i \in 1..Len(enum_declaration.members) |->
                    [name |-> enum_declaration.members[i], value |-> Null]]]

\* A ConsumeEnumDeclaration that stores the enum without registering its name.
ConsumeEnumDeclarationUnregistered(m, enum_declaration) ==
    [m EXCEPT !.enum_infos_ = Append(@, EnumInfo(enum_declaration))]

ConsumeEnumDeclaration(m, enum_declaration) ==
    RegisterAndStore(m, enum_declaration.identifier, "enum_infos_",
                     EnumInfo(enum_declaration))

RECURSIVE ConsumeConstMembers(_, _, _)
RECURSIVE ConsumeConstMembersAfter(_, _, _)
\* The loop over const_members: stops at the first failing declaration.
ConsumeConstMembers(m, const_members, i) ==
    IF i > Len(const_members) THEN m
    ELSE ConsumeConstMembersAfter(ConsumeConstDeclaration(m, const_members[i]),
                                  const_members, i)

\* The loop after const member i was consumed into m.
ConsumeConstMembersAfter(m, const_members, i) ==
    IF ~m.ok THEN m ELSE ConsumeConstMembers(m, const_members, i + 1)

RECURSIVE ConsumeEnumMembers(_, _, _)
RECURSIVE ConsumeEnumMembersAfter(_, _, _)
\* The loop over enum_members: stops at the first failing declaration.
ConsumeEnumMembers(m, enum_members, i) ==
    IF i > Len(enum_members) THEN m
    ELSE ConsumeEnumMembersAfter(ConsumeEnumDeclaration(m, enum_members[i]),
                                 enum_members, i)

\* The loop after enum member i was consumed into m.
ConsumeEnumMembersAfter(m, enum_members, i) ==
    IF ~m.ok THEN m ELSE ConsumeEnumMembers(m, enum_members, i + 1)

\* The nested enum declarations, after the nested const declarations were
\* consumed into m.
ConsumeNestedEnums(m, declaration) ==
    IF ~m.ok THEN m ELSE ConsumeEnumMembers(m, declaration.enum_members, 1)

\* The nested enum declarations first, then the nested const declarations.
ConsumeNestedEnumsFirst(m, declaration) ==
    IF ~ConsumeEnumMembers(m, declaration.enum_members, 1).ok
    THEN ConsumeEnumMembers(m, declaration.enum_members, 1)
    ELSE ConsumeConstMembers(ConsumeEnumMembers(m, declaration.enum_members, 1),
                             declaration.const_members, 1)

\* The nested const declarations, then the nested enum declarations.
ConsumeNested(m, declaration) ==
    ConsumeNestedEnums(ConsumeConstMembers(m, declaration.const_members, 1), declaration)

\* Ordinal(literal, value).
Ordinal(literal, value) == [literal |-> literal, value |-> value]

\* The parameters of a ParameterList as InterfaceInfo::Method::Parameter.
Parameters(list) ==
    [i \in 1..Len(list.parameter_list) |->
        [type |-> list.parameter_list[i].type, name |-> list.parameter_list[i].identifier]]

\* The InterfaceInfo::Method made of a method declaration whose ordinal
\* parsed as value.
Method(method, value) ==
    [ordinal |-> Ordinal(method.ordinal, value),
     name |-> method.identifier,
     parameter_list |-> Parameters(method.parameter_list),
     has_response |-> method.maybe_response # Null,
     maybe_response |-> IF method.maybe_response # Null
                        THEN Parameters(method.maybe_response)
                        ELSE <<>>]

RECURSIVE ConsumeMethods(_, _, _)
RECURSIVE ConsumeMethodsAfter(_, _, _, _)
\* The loop over method_members: [ok, methods]; not ok as soon as an ordinal
\* does not parse as a uint32_t.
ConsumeMethods(method_members, i, methods) ==
    IF i > Len(method_members) THEN [ok |-> TRUE, methods |-> methods]
    ELSE ConsumeMethodsAfter(method_members, i, methods,
                             ParseIntegerLiteral(method_members[i].ordinal, "uint32_t"))

\* The loop after the ordinal of method i was parsed into value.
ConsumeMethodsAfter(method_members, i, methods, value) ==
    IF ~value.ok THEN [ok |-> FALSE, methods |-> methods]
    ELSE ConsumeMethods(method_members, i + 1,
                        Append(methods, Method(method_members[i], value.value)))

\* ConsumeInterfaceDeclaration after the nested declarations were consumed
\* into nested and the methods into methods.
ConsumeInterfaceDeclarationOf(interface_declaration, nested, methods) ==
    IF ~nested.ok THEN nested
    ELSE IF ~methods.ok THEN [nested EXCEPT !.ok = FALSE]
    ELSE RegisterAndStore(nested, interface_declaration.identifier, "interface_infos_",
            [name |-> interface_declaration.identifier, methods |-> methods.methods])

ConsumeInterfaceDeclaration(m, interface_declaration) ==
    ConsumeInterfaceDeclarationOf(interface_declaration,
        ConsumeNested(m, interface_declaration),
        ConsumeMethods(interface_declaration.method_members, 1, <<>>))

\* The StructInfo::Members of a struct declaration.
StructMembers(struct_declaration) ==
    [i \in 1..Len(struct_declaration.members) |->
        [type |-> struct_declaration.members[i].type,
         name |-> struct_declaration.members[i].identifier,
         default_value |-> struct_declaration.members[i].maybe_default_value]]

\* ConsumeStructDeclaration after the nested declarations were consumed into
\* nested.
ConsumeStructDeclarationOf(struct_declaration, nested) ==
    IF ~nested.ok THEN nested
    ELSE RegisterAndStore(nested, struct_declaration.identifier, "struct_infos_",
            [name |-> struct_declaration.identifier,
             members |-> StructMembers(struct_declaration)])

ConsumeStructDeclaration(m, struct_declaration) ==
    ConsumeStructDeclarationOf(struct_declaration, ConsumeNested(m, struct_declaration))

ConsumeUnionDeclaration(m, union_declaration) ==
    LET members == [i \in 1..Len(union_declaration.members) |->
                        [type |-> union_declaration.members[i].type,
                         name |-> union_declaration.members[i].identifier]]
    IN  RegisterAndStore(m, union_declaration.identifier, "union_infos_",
            [name |-> union_declaration.identifier, members |-> members])

\* ------------------------------------------------------------------------
\* Resolve: checking the flattened declarations
\* ------------------------------------------------------------------------

\* A scope whose Insert reports success for a key it already holds.
ScopeInsertUnchecked(scope_, t) == [ok |-> TRUE, scope_ |-> scope_ \cup {t}]

\* A scope whose Insert reports whether the key is new and does not keep it.
ScopeInsertForgetting(scope_, t) == [ok |-> t \notin scope_, scope_ |-> scope_]

\* Scope<T>::Insert: std::set::insert and whether it inserted.
ScopeInsert(scope_, t) == [ok |-> t \notin scope_, scope_ |-> scope_ \cup {t}]

\* Module::RegisterResolvedType: std::map::insert and whether it inserted.
RegisterResolvedType(name, typeshape, resolved) ==
    [ok |-> name \notin DOMAIN resolved,
     resolved |-> IF name \in DOMAIN resolved THEN resolved
                  ELSE [n \in DOMAIN resolved \cup {name} |->
                            IF n = name THEN typeshape ELSE resolved[n]]]

RECURSIVE TypeNameCalls(_, _)
\* The ResolveTypeName calls ResolveType(type) makes: the element of an
\* array or a vector is resolved before anything else is checked.
TypeNameCalls(type, registered) ==
    CASE type.kind \in {"Array", "Vector"} -> TypeNameCalls(type.element_type, registered)
      [] type.kind = "Request" ->
            <<Call("ResolveTypeName", type.subtype, ResolveTypeName(type.subtype, registered))>>
      [] type.kind = "Identifier" ->
            <<Call("ResolveTypeName", type.identifier,
                   ResolveTypeName(type.identifier, registered))>>
      [] OTHER -> <<>>

\* What a Resolve*Info call returns: its bool, resolved_types_ when it
\* returns, and the calls it made.
Outcome(ok, resolved, calls) == [ok |-> ok, resolved |-> resolved, calls |-> calls]

ResolveConstInfo(const_info, registered, resolved) ==
    Outcome(ResolveTypeOnly(const_info.type, registered), resolved,
            TypeNameCalls(const_info.type, registered))

\* The subtypes ResolveEnumInfo allows for an enum.
EnumSubtypes ==
    {"Int8", "Int16", "Int32", "Int64", "Uint8", "Uint16", "Uint32", "Uint64"}

\* RegisterResolvedType(name, typeshape) as the last step of a Resolve*Info
\* call that made calls before it.
RegisterOutcome(name, inserted, calls) ==
    Outcome(inserted.ok, inserted.resolved,
            Append(calls, Call("RegisterResolvedType", name, inserted.ok)))

\* ResolveEnumInfo after its subtype was resolved into type.
ResolveEnumInfoOf(enum_info, type, resolved) ==
    IF ~type.ok THEN Outcome(FALSE, resolved, <<>>)
    ELSE RegisterOutcome(enum_info.name,
                         RegisterResolvedType(enum_info.name, type.typeshape, resolved),
                         <<>>)

ResolveEnumInfo(enum_info, registered, resolved) ==
    IF enum_info.type.subtype \in EnumSubtypes
    THEN ResolveEnumInfoOf(enum_info, ResolveType(enum_info.type, registered, TypeShape0),
                           resolved)
    ELSE Outcome(FALSE, resolved, <<>>)

RECURSIVE ResolveParameters(_, _, _, _, _)
\* A loop over a parameter list (or a struct's members) inside its own
\* scope: Insert the name, then resolve the type. [ok, calls].
ResolveParameters(parameters, i, scope, registered, calls) ==
    IF i > Len(parameters) THEN [ok |-> TRUE, calls |-> calls]
    ELSE IF ~ScopeInsert(scope, parameters[i].name).ok THEN [ok |-> FALSE, calls |-> calls]
    ELSE IF ~ResolveTypeOnly(parameters[i].type, registered)
    THEN [ok |-> FALSE, calls |-> calls \o TypeNameCalls(parameters[i].type, registered)]
    ELSE ResolveParameters(parameters, i + 1, ScopeInsert(scope, parameters[i].name).scope_,
                           registered,
                           calls \o TypeNameCalls(parameters[i].type, registered))

\* The response parameters of a method after its request parameters were
\* resolved: their own scope, and only when the method has a response.
ResolveResponse(method, request, registered) ==
    IF ~request.ok THEN request
    ELSE IF method.has_response
    THEN ResolveParameters(method.maybe_response, 1, {}, registered, request.calls)
    ELSE request

\* A method whose request and response parameters share one scope.
ResolveMethodOneScope(method, registered, calls) ==
    ResolveParameters(method.parameter_list \o method.maybe_response, 1, {}, registered,
                      calls)

\* The body of ResolveInterfaceInfo's loop for one method after the inserts
\* into name_scope and ordinal_scope: [ok, calls].
ResolveMethod(method, registered, calls) ==
    ResolveResponse(method,
                    ResolveParameters(method.parameter_list, 1, {}, registered, calls),
                    registered)

RECURSIVE ResolveMethods(_, _, _, _, _, _)
RECURSIVE ResolveMethodsAfter(_, _, _, _, _, _)
\* The loop over an interface's methods. [ok, calls].
ResolveMethods(methods, i, name_scope, ordinal_scope, registered, calls) ==
    IF i > Len(methods) THEN [ok |-> TRUE, calls |-> calls]
    ELSE IF ~ScopeInsert(name_scope, methods[i].name).ok
    THEN [ok |-> FALSE, calls |-> calls]
    ELSE IF ~ScopeInsert(ordinal_scope, methods[i].ordinal.value).ok
    THEN [ok |-> FALSE, calls |-> calls]
    ELSE ResolveMethodsAfter(methods, i,
                             ScopeInsert(name_scope, methods[i].name).scope_,
                             ScopeInsert(ordinal_scope, methods[i].ordinal.value).scope_,
                             registered, ResolveMethod(methods[i], registered, calls))

\* The loop after method i was resolved into method.
ResolveMethodsAfter(methods, i, name_scope, ordinal_scope, registered, method) ==
    IF ~method.ok THEN method
    ELSE ResolveMethods(methods, i + 1, name_scope, ordinal_scope, registered, method.calls)

\* What ResolveInterfaceInfo and ResolveStructInfo return after their loop
\* returned [ok, calls]: they insert nothing into resolved_types_.
LoopOutcome(loop, resolved) == Outcome(loop.ok, resolved, loop.calls)

ResolveInterfaceInfo(interface_info, registered, resolved) ==
    LoopOutcome(ResolveMethods(interface_info.methods, 1, {}, {}, registered, <<>>), resolved)

\* A single-pass resolver: the members of a struct see only the names
\* declared up to that struct, not the structs and unions that follow it.
ResolveStructInfoDeclaredSoFar(struct_info, registered, resolved) ==
    LoopOutcome(
        ResolveParameters(struct_info.members, 1, {},
            registered \ ({struct_infos_[j].name : j \in (cursor[2] + 1)..Len(struct_infos_)}
                          \cup {union_infos_[j].name : j \in 1..Len(union_infos_)}),
            <<>>),
        resolved)

ResolveStructInfo(struct_info, registered, resolved) ==
    LoopOutcome(ResolveParameters(struct_info.members, 1, {}, registered, <<>>), resolved)

RECURSIVE ResolveUnionMembers(_, _, _, _, _, _)
RECURSIVE ResolveUnionMembersAfter(_, _, _, _, _, _, _)
\* The loop over a union's members, folding UnionShape. [ok, typeshape, calls].
ResolveUnionMembers(members, i, scope, typeshape, registered, calls) ==
    IF i > Len(members) THEN [ok |-> TRUE, typeshape |-> typeshape, calls |-> calls]
    ELSE IF ~ScopeInsert(scope, members[i].name).ok
    THEN [ok |-> FALSE, typeshape |-> typeshape, calls |-> calls]
    ELSE ResolveUnionMembersAfter(members, i, ScopeInsert(scope, members[i].name).scope_,
                                  typeshape, registered,
                                  calls \o TypeNameCalls(members[i].type, registered),
                                  ResolveType(members[i].type, registered, TypeShape0))

\* The loop after the type of member i was resolved into member.
ResolveUnionMembersAfter(members, i, scope, typeshape, registered, calls, member) ==
    IF ~member.ok THEN [ok |-> FALSE, typeshape |-> typeshape, calls |-> calls]
    ELSE ResolveUnionMembers(members, i + 1, scope, UnionShape(typeshape, member.typeshape),
                             registered, calls)

\* ResolveUnionInfo after its loop returned members.
ResolveUnionInfoOf(union_info, members, resolved) ==
    IF ~members.ok THEN Outcome(FALSE, resolved, members.calls)
    ELSE RegisterOutcome(union_info.name,
                         RegisterResolvedType(union_info.name, members.typeshape, resolved),
                         members.calls)

ResolveUnionInfo(union_info, registered, resolved) ==
    ResolveUnionInfoOf(union_info,
                       ResolveUnionMembers(union_info.members, 1, {}, TypeShape0, registered,
                                           <<>>),
                       resolved)

\* ------------------------------------------------------------------------
\* The source files the driver parses
\* ------------------------------------------------------------------------

\* How many declarations the driver submits to one Module, over all its
\* Parse calls.
MaxDecls == 3

Int32 == PrimitiveType("Int32")
Uint8 == PrimitiveType("Uint8")
Uint32 == PrimitiveType("Uint32")
Uint64 == PrimitiveType("Uint64")

\* struct A { B b; };  struct B { int32 x; };  struct B { int32 x; uint8 x; };
\* struct C { uint8 x; C c; vector<uint8>:5 v; };  struct D { request<U> r; Z z; };
\* union U { uint8 a; uint64 b; };  union V { A a; uint32 a; }
StructA == StructDeclaration("A", <<>>, <<>>, <<StructMember(IdentifierType("B"), "b")>>)
StructB == StructDeclaration("B", <<>>, <<>>, <<StructMember(Int32, "x")>>)
StructBTwice ==
    StructDeclaration("B", <<>>, <<>>, <<StructMember(Int32, "x"), StructMember(Uint8, "x")>>)
StructC ==
    StructDeclaration("C", <<>>, <<>>,
        <<StructMember(Uint8, "x"), StructMember(IdentifierType("C"), "c"),
          StructMember(VectorType(Uint8, NumericConstant(Lit5)), "v")>>)
StructD ==
    StructDeclaration("D", <<>>, <<>>,
        <<StructMember(RequestType("U"), "r"), StructMember(IdentifierType("Z"), "z")>>)
UnionU == UnionDeclaration("U", <<UnionMember(Uint8, "a"), UnionMember(Uint64, "b")>>)
UnionV ==
    UnionDeclaration("V", <<UnionMember(IdentifierType("A"), "a"), UnionMember(Uint32, "a")>>)

CorpusStructs == {StructA, StructB, StructBTwice, StructC, StructD, UnionU, UnionV}

\* interface I { 1: m(int32 x) -> (int32 x); 2: n(int32 x); }
\* interface J { 1: m(request<I> r); }
\* interface K { 1: m(); 2: m(); }        interface K { 1: m(); 0x1: n(); }
\* interface L { 1: m(int32 x, uint8 x); }
\* interface L { 1: m() -> (int32 y, uint8 y); }
\* interface M { const int32 c = 1; enum I {a}; 4294967296: m(); }
LitHex1 == <<"0", "x", "1">>
NoParameters == ParameterList(<<>>)
InterfaceI ==
    InterfaceDeclaration("I", <<>>, <<>>,
        <<MethodDeclaration(NumericLiteral(Lit1), "m",
                            ParameterList(<<Parameter(Int32, "x")>>),
                            ParameterList(<<Parameter(Int32, "x")>>)),
          MethodDeclaration(NumericLiteral(Lit2), "n",
                            ParameterList(<<Parameter(Int32, "x")>>), Null)>>)
InterfaceJ ==
    InterfaceDeclaration("J", <<>>, <<>>,
        <<MethodDeclaration(NumericLiteral(Lit1), "m",
                            ParameterList(<<Parameter(RequestType("I"), "r")>>), Null)>>)
InterfaceSameName ==
    InterfaceDeclaration("K", <<>>, <<>>,
        <<MethodDeclaration(NumericLiteral(Lit1), "m", NoParameters, Null),
          MethodDeclaration(NumericLiteral(Lit2), "m", NoParameters, Null)>>)
InterfaceSameOrdinal ==
    InterfaceDeclaration("K", <<>>, <<>>,
        <<MethodDeclaration(NumericLiteral(Lit1), "m", NoParameters, Null),
          MethodDeclaration(NumericLiteral(LitHex1), "n", NoParameters, Null)>>)
InterfaceSameParameter ==
    InterfaceDeclaration("L", <<>>, <<>>,
        <<MethodDeclaration(NumericLiteral(Lit1), "m",
                            ParameterList(<<Parameter(Int32, "x"), Parameter(Uint8, "x")>>),
                            Null)>>)
InterfaceSameResponse ==
    InterfaceDeclaration("L", <<>>, <<>>,
        <<MethodDeclaration(NumericLiteral(Lit1), "m", NoParameters,
                            ParameterList(<<Parameter(Int32, "y"), Parameter(Uint8, "y")>>))>>)
InterfaceM ==
    InterfaceDeclaration("M",
        <<ConstDeclaration("c", Int32, NumericConstant(Lit1))>>,
        <<EnumDeclaration("I", Null, <<"a">>)>>,
        <<MethodDeclaration(NumericLiteral(Lit2p32), "m", NoParameters, Null)>>)

CorpusInterfaces ==
    {InterfaceI, InterfaceJ, InterfaceSameName, InterfaceSameOrdinal,
     InterfaceSameParameter, InterfaceSameResponse, InterfaceM}

\* const int32 N = 1;  const Z M = 1;  enum E : uint16 {a};  enum F : float32 {a};
\* enum N : int8 {a};  struct B { int32 x; };  union U { uint8 a; uint64 b; }
ConstN == ConstDeclaration("N", Int32, NumericConstant(Lit1))
ConstM == ConstDeclaration("M", IdentifierType("Z"), NumericConstant(Lit1))
EnumE == EnumDeclaration("E", PrimitiveType("Uint16"), <<"a">>)
EnumF == EnumDeclaration("F", PrimitiveType("Float32"), <<"a">>)
EnumN == EnumDeclaration("N", PrimitiveType("Int8"), <<"a">>)

CorpusScalars == {ConstN, ConstM, EnumE, EnumF, EnumN, StructB, UnionU}

\* const int32 c = 1;  interface P { const int32 d = 1; enum T {a}; 1: m(); }
\* struct S { const int32 c = 1; enum T {a}; int32 x; };  struct T { int32 x; };
ConstC == ConstDeclaration("c", Int32, NumericConstant(Lit1))
InterfaceP ==
    InterfaceDeclaration("P",
        <<ConstDeclaration("d", Int32, NumericConstant(Lit1))>>,
        <<EnumDeclaration("T", Null, <<"a">>)>>,
        <<MethodDeclaration(NumericLiteral(Lit1), "m", NoParameters, Null)>>)
StructS ==
    StructDeclaration("S",
        <<ConstDeclaration("c", Int32, NumericConstant(Lit1))>>,
        <<EnumDeclaration("T", Null, <<"a">>)>>,
        <<StructMember(Int32, "x")>>)
StructT == StructDeclaration("T", <<>>, <<>>, <<StructMember(Int32, "x")>>)

CorpusNested == {ConstC, InterfaceP, StructS, StructT}

Corpora == {CorpusStructs, CorpusInterfaces, CorpusScalars, CorpusNested}

\* The sequences of at most n declarations of c in which the categories
\* follow the order of a File's lists.
DeclarationSeqs(c, n) ==
    {s \in UNION {[1..k -> c] : k \in 0..n} :
        \A i \in 1..(Len(s) - 1) :
            CategoryIndex(s[i].node) <= CategoryIndex(s[i + 1].node)}

\* ------------------------------------------------------------------------
\* The Module as a state machine
\* ------------------------------------------------------------------------

\* An empty resolved_types_.
EmptyMap == [n \in {} |-> TypeShape0]
\* cursor outside Resolve.
NoCursor == <<0, 0>>
\* cursor when Resolve has walked every table.
EndCursor == <<Len(Categories) + 1, 1>>

Init ==
    /\ const_infos_ = <<>>
    /\ enum_infos_ = <<>>
    /\ interface_infos_ = <<>>
    /\ struct_infos_ = <<>>
    /\ union_infos_ = <<>>
    /\ registered_types_ = {}
    /\ resolved_types_ = EmptyMap
    /\ pc = "idle"
    /\ ast = Null
    /\ file = Null
    /\ cursor = NoCursor
    /\ parse_result = "none"
    /\ history = <<>>
    /\ corpus \in Corpora
    /\ budget = MaxDecls
    /\ strto_einval \in BOOLEAN
    /\ rt_type = Null
    /\ rt_out = TypeShape0
    /\ rt_ok = "unused"
    /\ scope_object = {}
    /\ scope_calls = <<>>

\* Parse up to its call of ConsumeFile: the parser hands over the File.
ParseBegin ==
    /\ pc = "idle"
    /\ \E decls \in DeclarationSeqs(corpus, budget) :
        /\ ast' = File(decls)
        /\ file' = File(decls)
        /\ budget' = budget - Len(decls)
    /\ pc' = "consume"
    /\ parse_result' = "running"
    /\ history' = <<>>
    /\ UNCHANGED <<module_vars, cursor, corpus, strto_einval, rt_vars, scope_vars>>

\* Parse when the parser is not Ok: it returns false before ConsumeFile.
ParserNotOk ==
    /\ pc = "idle"
    /\ ast' = Null
    /\ parse_result' = "false"
    /\ history' = <<>>
    /\ UNCHANGED <<module_vars, pc, file, cursor, corpus, budget, strto_einval, rt_vars, scope_vars>>

\* The Module after a Consume call returned m.
Store(m) ==
    /\ const_infos_' = m.const_infos_
    /\ enum_infos_' = m.enum_infos_
    /\ interface_infos_' = m.interface_infos_
    /\ struct_infos_' = m.struct_infos_
    /\ union_infos_' = m.union_infos_
    /\ registered_types_' = m.registered_types_
    /\ history' = history \o m.calls

\* One iteration of one of ConsumeFile's loops: the declaration is moved out
\* of list and consumed into m; when that fails ConsumeFile returns false,
\* and so does Parse.
ConsumeNext(list, m) ==
    /\ Store(m)
    /\ IF m.ok
       THEN /\ file' = [file EXCEPT ![list] = Tail(@)]
            /\ UNCHANGED <<pc, parse_result>>
       ELSE /\ file' = Null
            /\ pc' = "idle"
            /\ parse_result' = "false"
    /\ UNCHANGED <<resolved_types_, ast, cursor, corpus, budget, strto_einval, rt_vars, scope_vars>>

ConsumeConst ==
    /\ pc = "consume"
    /\ file.const_declaration_list # <<>>
    /\ ConsumeNext("const_declaration_list",
                   ConsumeConstDeclaration(ModuleState, Head(file.const_declaration_list)))

ConsumeEnum ==
    /\ pc = "consume"
    /\ file.const_declaration_list = <<>>
    /\ file.enum_declaration_list # <<>>
    /\ ConsumeNext("enum_declaration_list",
                   ConsumeEnumDeclaration(ModuleState, Head(file.enum_declaration_list)))

ConsumeInterface ==
    /\ pc = "consume"
    /\ file.const_declaration_list = <<>>
    /\ file.enum_declaration_list = <<>>
    /\ file.interface_declaration_list # <<>>
    /\ ConsumeNext("interface_declaration_list",
                   ConsumeInterfaceDeclaration(ModuleState,
                                               Head(file.interface_declaration_list)))

ConsumeStruct ==
    /\ pc = "consume"
    /\ file.const_declaration_list = <<>>
    /\ file.enum_declaration_list = <<>>
    /\ file.interface_declaration_list = <<>>
    /\ file.struct_declaration_list # <<>>
    /\ ConsumeNext("struct_declaration_list",
                   ConsumeStructDeclaration(ModuleState, Head(file.struct_declaration_list)))

ConsumeUnion ==
    /\ pc = "consume"
    /\ file.const_declaration_list = <<>>
    /\ file.enum_declaration_list = <<>>
    /\ file.interface_declaration_list = <<>>
    /\ file.struct_declaration_list = <<>>
    /\ file.union_declaration_list # <<>>
    /\ ConsumeNext("union_declaration_list",
                   ConsumeUnionDeclaration(ModuleState, Head(file.union_declaration_list)))

\* The table Resolve walks k-th.
Table(k) ==
    CASE k = 1 -> const_infos_
      [] k = 2 -> enum_infos_
      [] k = 3 -> interface_infos_
      [] k = 4 -> struct_infos_
      [] k = 5 -> union_infos_

RECURSIVE Position(_, _)
\* Resolve's position at or after entry i of table k: the next entry one of
\* its loops visits, EndCursor when there is none.
Position(k, i) ==
    IF k > Len(Categories) THEN EndCursor
    ELSE IF i <= Len(Table(k)) THEN <<k, i>>
    ELSE Position(k + 1, 1)

\* A Parse that goes on to Resolve while declarations are still in the File.
ResolveBeforeConsumed ==
    /\ pc = "consume"
    /\ pc' = "resolve"
    /\ cursor' = Position(1, 1)
    /\ UNCHANGED <<module_vars, ast, file, parse_result, history, corpus, budget,
                   strto_einval, rt_vars, scope_vars>>

\* ConsumeFile returns true, having moved every declaration out of the File;
\* Parse goes on to Resolve.
ConsumeFileReturn ==
    /\ pc = "consume"
    /\ Declarations(file) = <<>>
    /\ pc' = "resolve"
    /\ file' = Null
    /\ cursor' = Position(1, 1)
    /\ UNCHANGED <<module_vars, ast, parse_result, history, corpus, budget, strto_einval,
                   rt_vars, scope_vars>>

\* A Resolve that goes on to the next declaration after a failed one.
ResolveNextContinuing(o) ==
    /\ resolved_types_' = o.resolved
    /\ history' = history \o o.calls
    /\ cursor' = Position(cursor[1], cursor[2] + 1)
    /\ UNCHANGED <<pc, parse_result>>
    /\ UNCHANGED <<const_infos_, enum_infos_, interface_infos_, struct_infos_, union_infos_,
                   registered_types_, ast, file, corpus, budget, strto_einval, rt_vars, scope_vars>>

\* One iteration of one of Resolve's loops, o being what the Resolve*Info
\* call returned; when that fails Resolve returns false, and so does Parse.
ResolveNext(o) ==
    /\ resolved_types_' = o.resolved
    /\ history' = history \o o.calls
    /\ IF o.ok
       THEN /\ cursor' = Position(cursor[1], cursor[2] + 1)
            /\ UNCHANGED <<pc, parse_result>>
       ELSE /\ cursor' = NoCursor
            /\ pc' = "idle"
            /\ parse_result' = "false"
    /\ UNCHANGED <<const_infos_, enum_infos_, interface_infos_, struct_infos_, union_infos_,
                   registered_types_, ast, file, corpus, budget, strto_einval, rt_vars, scope_vars>>

ResolveConst ==
    /\ pc = "resolve"
    /\ cursor[1] = 1
    /\ ResolveNext(ResolveConstInfo(const_infos_[cursor[2]], registered_types_,
                                    resolved_types_))

ResolveEnum ==
    /\ pc = "resolve"
    /\ cursor[1] = 2
    /\ ResolveNext(ResolveEnumInfo(enum_infos_[cursor[2]], registered_types_,
                                   resolved_types_))

ResolveInterface ==
    /\ pc = "resolve"
    /\ cursor[1] = 3
    /\ ResolveNext(ResolveInterfaceInfo(interface_infos_[cursor[2]], registered_types_,
                                        resolved_types_))

ResolveStruct ==
    /\ pc = "resolve"
    /\ cursor[1] = 4
    /\ ResolveNext(ResolveStructInfo(struct_infos_[cursor[2]], registered_types_,
                                     resolved_types_))

ResolveUnion ==
    /\ pc = "resolve"
    /\ cursor[1] = 5
    /\ ResolveNext(ResolveUnionInfo(union_infos_[cursor[2]], registered_types_,
                                    resolved_types_))

\* Resolve returns true after its last loop, and so does Parse.
\* A Resolve that starts over when it has walked every table.
ResolveReturnRestarting ==
    /\ pc = "resolve"
    /\ cursor = EndCursor
    /\ cursor' = Position(1, 1)
    /\ history' = <<>>
    /\ UNCHANGED <<module_vars, pc, ast, file, parse_result, corpus, budget, strto_einval,
                   rt_vars, scope_vars>>

ResolveReturn ==
    /\ pc = "resolve"
    /\ cursor = EndCursor
    /\ pc' = "idle"
    /\ cursor' = NoCursor
    /\ parse_result' = "true"
    /\ UNCHANGED <<module_vars, ast, file, history, corpus, budget, strto_einval, rt_vars, scope_vars>>

\* The names of the records of every table.
TableNames ==
    UNION {{Table(k)[i].name : i \in 1..Len(Table(k))} : k \in 1..Len(Categories)}

\* Module::Dump: resolved_types_[name] for the name of every record, which
\* inserts a default-constructed TypeShape for a name that is no key yet.
Dump ==
    /\ pc = "idle"
    /\ resolved_types_' =
            [n \in DOMAIN resolved_types_ \cup TableNames |->
                IF n \in DOMAIN resolved_types_ THEN resolved_types_[n] ELSE TypeShape0]
    /\ UNCHANGED <<const_infos_, enum_infos_, interface_infos_, struct_infos_, union_infos_,
                   registered_types_, parse_vars, strto_einval, rt_vars, scope_vars>>

Next ==
    \/ ParseBegin
    \/ ParserNotOk
    \/ ConsumeConst
    \/ ConsumeEnum
    \/ ConsumeInterface
    \/ ConsumeStruct
    \/ ConsumeUnion
    \/ ConsumeFileReturn
    \/ ResolveConst
    \/ ResolveEnum
    \/ ResolveInterface
    \/ ResolveStruct
    \/ ResolveUnion
    \/ ResolveReturn
    \/ Dump

Spec == Init /\ [][Next]_vars

\* ------------------------------------------------------------------------
\* ResolveType applied to type nodes drawn from a bounded set
\* ------------------------------------------------------------------------

\* How deep array and vector types nest in the types ResolveType is tried on.
MaxNesting == 2

\* Counts and bounds of the outermost array, vector or string.
NumericCounts ==
    {NumericConstant(d) : d \in {Lit0, Lit1, Lit4, Lit5, LitMinus1, LitEmpty, LitHex10,
                                 Lit2p61, LitInt64Max, Lit2p63, LitUint64Max, Lit2p64}}
OtherCounts ==
    {IdentifierConstant("N"), IdentifierConstant("A"), LiteralConstant([kind |-> "String"]),
     LiteralConstant([kind |-> "True"])}
\* Counts and bounds of the arrays and vectors nested in another type.
InnerCounts == {NumericConstant(Lit2), NumericConstant(Lit0)}

\* Types that are not built from another type.
LeafTypes ==
    {PrimitiveType("Uint8"), PrimitiveType("Uint32"), PrimitiveType("Uint64"), HandleType,
     IdentifierType("A"), IdentifierType("Z"), StringType(NumericConstant(Lit5))}

RECURSIVE ElementTypes(_)
\* The types an array or vector of nesting depth n + 1 may hold.
ElementTypes(n) ==
    IF n = 0 THEN LeafTypes
    ELSE LET inner == ElementTypes(n - 1)
         IN  LeafTypes
             \cup {ArrayType(t, c) : t \in inner, c \in InnerCounts}
             \cup {VectorType(t, c) : t \in inner, c \in InnerCounts \cup {Null}}

RtTypes ==
    {PrimitiveType(st) : st \in PrimitiveSubtypes}
    \cup {HandleType, RequestType("A"), RequestType("Z"),
          IdentifierType("A"), IdentifierType("Z")}
    \cup {StringType(c) : c \in NumericCounts \cup OtherCounts \cup {Null}}
    \cup {ArrayType(t, c) : t \in ElementTypes(MaxNesting - 1),
                            c \in NumericCounts \cup OtherCounts \cup {Null}}
    \cup {VectorType(t, c) : t \in ElementTypes(MaxNesting - 1),
                             c \in NumericCounts \cup OtherCounts \cup {Null}}

\* The Module ResolveType runs in: nothing declared, or one consumed file
\* that declared the interface A, or one that declared the struct A.
InterfaceA == [name |-> "A", methods |-> <<>>]

StructNamedA == [name |-> "A", members |-> <<[type |-> Int32, name |-> "x"]>>]

InitRT ==
    /\ const_infos_ = <<>>
    /\ enum_infos_ = <<>>
    /\ union_infos_ = <<>>
    /\ \/ interface_infos_ = <<>> /\ struct_infos_ = <<>> /\ registered_types_ = {}
       \/ interface_infos_ = <<InterfaceA>> /\ struct_infos_ = <<>>
            /\ registered_types_ = {"A"}
       \/ interface_infos_ = <<>> /\ struct_infos_ = <<StructNamedA>>
            /\ registered_types_ = {"A"}
    /\ resolved_types_ = <<>>
    /\ pc = "resolve"
    /\ ast = File(<<>>)
    /\ file = Null
    /\ cursor = <<3, 1>>
    /\ parse_result = "none"
    /\ history = <<>>
    /\ corpus = {}
    /\ budget = 0
    /\ strto_einval \in BOOLEAN
    /\ rt_type \in RtTypes
    /\ rt_out = TypeShape0
    /\ rt_ok = "pending"
    /\ scope_object = {}
    /\ scope_calls = <<>>

\* One call ResolveType(rt_type, &rt_out) with a default-constructed rt_out,
\* as every caller in the Module passes it.
ResolveTypeReturn(r) ==
    /\ rt_ok' = (IF r.ok THEN "true" ELSE "false")
    /\ rt_out' = r.typeshape

ResolveTypeCall ==
    /\ rt_ok = "pending"
    /\ ResolveTypeReturn(ResolveType(rt_type, registered_types_, rt_out))
    /\ UNCHANGED <<module_vars, parse_vars, strto_einval, rt_type, scope_vars>>

NextRT == ResolveTypeCall

SpecRT == InitRT /\ [][NextRT]_vars

\* ------------------------------------------------------------------------
\* Parse of a file that declares one union
\* ------------------------------------------------------------------------

\* How many members the union has at most.
MaxMembers == 3

\* array<uint8>:5 and array<uint8>:18446744073709551615.
Bytes5 == ArrayType(Uint8, NumericConstant(Lit5))
BytesMax == ArrayType(Uint8, NumericConstant(LitUint64Max))

\* The types of the union's members; Z is declared nowhere.
UnionMemberTypes ==
    {Uint8, PrimitiveType("Uint16"), Uint32, Uint64, Bytes5, BytesMax,
     VectorType(Uint8, Null), IdentifierType("U"), IdentifierType("Z")}

\* The names of the union's members, by position.
MemberName(i) == <<"a", "b", "c", "d", "e">>[i]

\* union U with the member types given by the sequence types.
UnionOf(types) ==
    UnionDeclaration("U", [i \in 1..Len(types) |-> UnionMember(types[i], MemberName(i))])

\* A fresh Module whose first Parse call was handed the File of one union.
InitUnion ==
    /\ const_infos_ = <<>>
    /\ enum_infos_ = <<>>
    /\ interface_infos_ = <<>>
    /\ struct_infos_ = <<>>
    /\ union_infos_ = <<>>
    /\ registered_types_ = {}
    /\ resolved_types_ = EmptyMap
    /\ pc = "consume"
    /\ \E types \in UNION {[1..n -> UnionMemberTypes] : n \in 0..MaxMembers} :
        /\ ast = File(<<UnionOf(types)>>)
        /\ file = File(<<UnionOf(types)>>)
    /\ cursor = NoCursor
    /\ parse_result = "running"
    /\ history = <<>>
    /\ corpus = {}
    /\ budget = 0
    /\ strto_einval \in BOOLEAN
    /\ rt_type = Null
    /\ rt_out = TypeShape0
    /\ rt_ok = "unused"
    /\ scope_object = {}
    /\ scope_calls = <<>>

NextUnion ==
    \/ ConsumeUnion
    \/ ConsumeFileReturn
    \/ ResolveUnion
    \/ ResolveReturn

SpecUnion == InitUnion /\ [][NextUnion]_vars

\* ------------------------------------------------------------------------
\* Parse of a file that declares one interface with one method
\* ------------------------------------------------------------------------

\* 010, +1, 1z, 0x, 1.5, z, -18446744073709551615.
Lit010 == <<"0", "1", "0">>
LitPlus1 == <<"+", "1">>
Lit1z == <<"1", "z">>
Lit0x == <<"0", "x">>
Lit1Dot5 == <<"1", ".", "5">>
LitZ == <<"z">>
LitMinusUint64Max == <<"-">> \o LitUint64Max

\* The tokens the method's ordinal is drawn from.
OrdinalLiterals ==
    {Lit0, Lit1, Lit5, Lit010, LitHex10, LitUint32Max, Lit2p32, LitUint64Max, Lit2p64,
     LitEmpty, LitMinus1, LitPlus1, Lit1z, Lit0x, Lit1Dot5, LitZ, LitMinusUint64Max}

\* interface I { [const int32 c = 1;] <ordinal>: m(); }
InterfaceOf(const_members, ordinal) ==
    InterfaceDeclaration("I", const_members, <<>>,
        <<MethodDeclaration(ordinal, "m", NoParameters, Null)>>)

\* A fresh Module whose first Parse call was handed the File of one
\* interface.
InitOrdinal ==
    /\ const_infos_ = <<>>
    /\ enum_infos_ = <<>>
    /\ interface_infos_ = <<>>
    /\ struct_infos_ = <<>>
    /\ union_infos_ = <<>>
    /\ registered_types_ = {}
    /\ resolved_types_ = EmptyMap
    /\ pc = "consume"
    /\ \E const_members \in {<<>>, <<ConstDeclaration("c", Int32, NumericConstant(Lit1))>>},
          ordinal \in {NumericLiteral(data) : data \in OrdinalLiterals} \cup {Null} :
        /\ ast = File(<<InterfaceOf(const_members, ordinal)>>)
        /\ file = File(<<InterfaceOf(const_members, ordinal)>>)
    /\ cursor = NoCursor
    /\ parse_result = "running"
    /\ history = <<>>
    /\ corpus = {}
    /\ budget = 0
    /\ strto_einval \in BOOLEAN
    /\ rt_type = Null
    /\ rt_out = TypeShape0
    /\ rt_ok = "unused"
    /\ scope_object = {}
    /\ scope_calls = <<>>

NextOrdinal ==
    \/ ConsumeInterface
    \/ ConsumeFileReturn
    \/ ResolveConst
    \/ ResolveInterface
    \/ ResolveReturn

SpecOrdinal == InitOrdinal /\ [][NextOrdinal]_vars

\* ------------------------------------------------------------------------
\* A Scope object used on its own
\* ------------------------------------------------------------------------

\* How many Insert calls are made on the Scope.
MaxInserts == 4

\* The keys that are inserted.
ScopeKeys == {"a", "b", "c"}

\* A Scope as constructed, beside a Module nothing was parsed into.
InitScope ==
    /\ const_infos_ = <<>>
    /\ enum_infos_ = <<>>
    /\ interface_infos_ = <<>>
    /\ struct_infos_ = <<>>
    /\ union_infos_ = <<>>
    /\ registered_types_ = {}
    /\ resolved_types_ = EmptyMap
    /\ pc = "idle"
    /\ ast = Null
    /\ file = Null
    /\ cursor = NoCursor
    /\ parse_result = "none"
    /\ history = <<>>
    /\ corpus = {}
    /\ budget = 0
    /\ strto_einval = FALSE
    /\ rt_type = Null
    /\ rt_out = TypeShape0
    /\ rt_ok = "unused"
    /\ scope_object = {}
    /\ scope_calls = <<>>

\* The Scope after Insert returned inserted, and the call as it is logged.
ScopeInsertReturn(t, inserted) ==
    /\ scope_object' = inserted.scope_
    /\ scope_calls' = Append(scope_calls, <<t, inserted.ok>>)

\* One call scope.Insert(t).
ScopeInsertCall ==
    /\ Len(scope_calls) < MaxInserts
    /\ \E t \in ScopeKeys : ScopeInsertReturn(t, ScopeInsert(scope_object, t))
    /\ UNCHANGED <<module_vars, parse_vars, strto_einval, rt_vars>>

NextScope == ScopeInsertCall

SpecScope == InitScope /\ [][NextScope]_vars

\* ------------------------------------------------------------------------
\* Parse of a file of structs that refer to themselves and to each other
\* ------------------------------------------------------------------------

\* How many structs the file declares at most.
MaxStructs == 3

\* struct A { A a; };  struct A { B b; };  struct B { A a; };
\* struct C { vector<vector<C>> v; B b; };  struct D { Z z; };
StructSelf == StructDeclaration("A", <<>>, <<>>, <<StructMember(IdentifierType("A"), "a")>>)
StructAB == StructDeclaration("A", <<>>, <<>>, <<StructMember(IdentifierType("B"), "b")>>)
StructBA == StructDeclaration("B", <<>>, <<>>, <<StructMember(IdentifierType("A"), "a")>>)
StructNested ==
    StructDeclaration("C", <<>>, <<>>,
        <<StructMember(VectorType(VectorType(IdentifierType("C"), Null), Null), "v"),
          StructMember(IdentifierType("B"), "b")>>)
StructUnresolved ==
    StructDeclaration("D", <<>>, <<>>, <<StructMember(IdentifierType("Z"), "z")>>)

CyclicStructs == {StructSelf, StructAB, StructBA, StructNested, StructUnresolved}

\* A fresh Module whose first Parse call was handed a File of such structs.
InitCyclic ==
    /\ const_infos_ = <<>>
    /\ enum_infos_ = <<>>
    /\ interface_infos_ = <<>>
    /\ struct_infos_ = <<>>
    /\ union_infos_ = <<>>
    /\ registered_types_ = {}
    /\ resolved_types_ = EmptyMap
    /\ pc = "consume"
    /\ \E decls \in UNION {[1..n -> CyclicStructs] : n \in 0..MaxStructs} :
        /\ ast = File(decls)
        /\ file = File(decls)
    /\ cursor = NoCursor
    /\ parse_result = "running"
    /\ history = <<>>
    /\ corpus = {}
    /\ budget = 0
    /\ strto_einval = FALSE
    /\ rt_type = Null
    /\ rt_out = TypeShape0
    /\ rt_ok = "unused"
    /\ scope_object = {}
    /\ scope_calls = <<>>

NextCyclic ==
    \/ ConsumeStruct
    \/ ConsumeFileReturn
    \/ ResolveStruct
    \/ ResolveReturn

\* Parse is one synchronous call: a step that can be taken is taken.
SpecCyclic == InitCyclic /\ [][NextCyclic]_vars /\ WF_vars(NextCyclic)

\* ------------------------------------------------------------------------
\* Properties of Consume
\* ------------------------------------------------------------------------

\* The calls that belong to Resolve.
ResolveCalls == {"ResolveTypeName", "RegisterResolvedType"}

\* The names of the const and enum declarations nested in declaration d.
NestedNames(d) ==
    IF d.node \in {"interface", "struct"}
    THEN {d.const_members[i].identifier : i \in 1..Len(d.const_members)}
         \cup {d.enum_members[i].identifier : i \in 1..Len(d.enum_members)}
    ELSE {}

\* Every name the File f declares, nested declarations included.
DeclaredNames(f) ==
    UNION {{Declarations(f)[i].identifier} \cup NestedNames(Declarations(f)[i]) :
           i \in 1..Len(Declarations(f))}

\* The first file with declarations that a fresh Module is given.
FirstParseOf(decls) == ast = File(decls) /\ budget = MaxDecls - Len(decls)

\* The calls a step appends to history.
NewCalls ==
    IF Len(history') >= Len(history) /\ SubSeq(history', 1, Len(history)) = history
    THEN SubSeq(history', Len(history) + 1, Len(history'))
    ELSE <<>>

\* The next declaration ConsumeFile moves out of the File is a top-level
\* declaration of a name the registry already holds.
DuplicateNext ==
    /\ pc = "consume"
    /\ Declarations(file) # <<>>
    /\ Head(Declarations(file)).identifier \in registered_types_

\* What the step that consumes a duplicate declaration does.
DuplicateAborts ==
    DuplicateNext =>
        /\ pc' = "idle"
        /\ parse_result' = "false"
        /\ file' = Null
        /\ cursor' = NoCursor
        /\ resolved_types_' = resolved_types_
        /\ \A i \in 1..Len(history') : history'[i].call = "RegisterTypeName"
        /\ registered_types_' \ registered_types_
                \subseteq NestedNames(Head(Declarations(file)))
        /\ \A k \in 1..Len(Categories) :
            /\ Len(Table(k)') >= Len(Table(k))
            /\ SubSeq(Table(k)', 1, Len(Table(k))) = Table(k)
            /\ \A i \in (Len(Table(k)) + 1)..Len(Table(k)') :
                    Table(k)'[i].name \in NestedNames(Head(Declarations(file)))

\* C1: when the declaration ConsumeFile reaches declares a top-level name
\* the registry already holds, that step ends the Parse call with failure:
\* nothing of the declarations after it is registered or stored (the only
\* records the step can add are declarations nested in the duplicate one,
\* which are consumed before its own name), the rest of the File is dropped,
\* no call of Resolve is made and resolved_types_ is unchanged; and no
\* declaration is left to consume once Parse has returned.
C1_DuplicateNameAbortsConsume ==
    [](pc = "idle" => file = Null) /\ [][DuplicateAborts]_vars

\* C1 happens: struct B, struct B again, struct C; the second B failed, C was
\* never registered and Parse returned false.
C1_Witness ==
    /\ ast = File(<<StructB, StructBTwice, StructC>>)
    /\ parse_result = "false"
    /\ history = <<Call("RegisterTypeName", "B", TRUE), Call("RegisterTypeName", "B", FALSE)>>
    /\ registered_types_ = {"B"}
    /\ Len(struct_infos_) = 1
    /\ DOMAIN resolved_types_ = {}

\* C2: within one Parse call no RegisterTypeName call follows a
\* ResolveTypeName or RegisterResolvedType call, and Resolve runs (or has
\* run) only when ConsumeFile consumed the whole File successfully: the File
\* is empty, every RegisterTypeName call succeeded, and the names these
\* calls registered are exactly the names the File declares.
C2_ConsumeBeforeResolve ==
    /\ \A i, j \in 1..Len(history) :
            i < j /\ history[i].call \in ResolveCalls => history[j].call \in ResolveCalls
    /\ \/ pc = "resolve"
       \/ parse_result = "true"
       \/ \E i \in 1..Len(history) : history[i].call \in ResolveCalls
       => /\ ast # Null
          /\ pc = "resolve" => file = Null
          /\ \A i \in 1..Len(history) :
                history[i].call = "RegisterTypeName" => history[i].result
          /\ {history[i].name : i \in {j \in 1..Len(history) :
                                        history[j].call = "RegisterTypeName"}}
                = DeclaredNames(ast)
          /\ DeclaredNames(ast) \subseteq registered_types_

\* C2 happens: Resolve made lookups after a File of three declarations was
\* consumed.
C2_Witness ==
    /\ pc = "resolve"
    /\ Len(Declarations(ast)) = MaxDecls
    /\ Len(history) > MaxDecls
    /\ history[Len(history)].call = "ResolveTypeName"

\* C3: a lookup of a name the File declares succeeds wherever the
\* declaration stands in the File; struct A { B b; } before struct B
\* { int32 x; }, and the two in the other order, make Parse return true.
C3_ForwardReference ==
    /\ ast # Null =>
        \A i \in 1..Len(history) :
            history[i].call = "ResolveTypeName" /\ history[i].name \in DeclaredNames(ast)
                => history[i].result
    /\ FirstParseOf(<<StructA, StructB>>) /\ parse_result # "running"
        => parse_result = "true"
    /\ FirstParseOf(<<StructB, StructA>>) /\ parse_result # "running"
        => parse_result = "true"

\* C3 happens: A, which refers to B, was declared first and Parse returned
\* true after looking B up.
C3_Witness ==
    /\ FirstParseOf(<<StructA, StructB>>)
    /\ parse_result = "true"
    /\ history = <<Call("RegisterTypeName", "A", TRUE), Call("RegisterTypeName", "B", TRUE),
                   Call("ResolveTypeName", "B", TRUE)>>

RECURSIVE RegistryAfter(_, _, _)
\* The registry a write-once set is after the calls from calls[i] on were
\* made on registered.
RegistryAfter(calls, i, registered) ==
    IF i > Len(calls) THEN registered
    ELSE RegistryAfter(calls, i + 1,
                       IF calls[i].call = "RegisterTypeName"
                       THEN registered \cup {calls[i].name}
                       ELSE registered)

\* Each RegisterTypeName call of calls returned whether its name was new.
WriteOnce(calls, registered) ==
    \A i \in 1..Len(calls) :
        calls[i].call = "RegisterTypeName"
            => calls[i].result
                = (calls[i].name \notin RegistryAfter(SubSeq(calls, 1, i - 1), 1, registered))

\* What any step does to the registry.
RegistryStep ==
    /\ registered_types_ \subseteq registered_types_'
    /\ WriteOnce(NewCalls, registered_types_)
    /\ registered_types_' = RegistryAfter(NewCalls, 1, registered_types_)
    /\ \A i \in 1..Len(NewCalls) :
            NewCalls[i].call = "RegisterTypeName" /\ ~NewCalls[i].result
                => NewCalls[i].name \in registered_types_
                                        \cup {NewCalls[j].name : j \in 1..(i - 1)}

\* C4: the registry is write-once per name: a RegisterTypeName call returns
\* false exactly when its name is already registered and then leaves the
\* registry as it is, returns true for a new name and adds exactly that
\* name, and no step of the Module removes a name.
C4_RegistryWriteOnce == [][RegistryStep]_vars

\* C4 happens: const N was registered, enum N was refused, and the registry
\* still holds N once.
C4_Witness ==
    /\ ast = File(<<ConstN, EnumN>>)
    /\ history = <<Call("RegisterTypeName", "N", TRUE), Call("RegisterTypeName", "N", FALSE)>>
    /\ registered_types_ = {"N"}
    /\ Len(const_infos_) = 1
    /\ enum_infos_ = <<>>

\* ------------------------------------------------------------------------
\* Properties of the scopes of Resolve
\* ------------------------------------------------------------------------

\* No element of the sequence s occurs twice.
NoRepeats(s) == \A i, j \in 1..Len(s) : i # j => s[i] # s[j]

\* The names of a list of members or parameters.
NamesOf(list) == [i \in 1..Len(list) |-> list[i].name]

\* The record info of table k repeats no name inside one of its scopes.
DuplicateFree(k, info) ==
    CASE k = 3 ->
            /\ NoRepeats(NamesOf(info.methods))
            /\ NoRepeats([i \in 1..Len(info.methods) |-> info.methods[i].ordinal.value])
            /\ \A i \in 1..Len(info.methods) :
                /\ NoRepeats(NamesOf(info.methods[i].parameter_list))
                /\ NoRepeats(NamesOf(info.methods[i].maybe_response))
      [] k \in {4, 5} -> NoRepeats(NamesOf(info.members))
      [] OTHER -> TRUE

\* Every type the record info of table k mentions resolves.
TypesResolve(k, info) ==
    CASE k = 3 ->
            \A i \in 1..Len(info.methods) :
                /\ \A p \in 1..Len(info.methods[i].parameter_list) :
                        ResolveTypeOnly(info.methods[i].parameter_list[p].type,
                                        registered_types_)
                /\ \A p \in 1..Len(info.methods[i].maybe_response) :
                        ResolveTypeOnly(info.methods[i].maybe_response[p].type,
                                        registered_types_)
      [] k \in {4, 5} ->
            \A i \in 1..Len(info.members) :
                ResolveTypeOnly(info.members[i].type, registered_types_)
      [] OTHER -> TRUE

\* Resolve stands at a record of a table.
AtRecord == pc = "resolve" /\ cursor # EndCursor

\* The record Resolve stands at.
CurrentRecord == Table(cursor[1])[cursor[2]]

\* C5: Resolve fails on a name repeated inside one scope: the step that
\* resolves a struct or union with two members of one name, an interface
\* with two methods of one name or of one ordinal value, or a parameter list
\* (request or response) with two parameters of one name ends the Parse
\* call with failure; so Parse never returns true while a table holds such a
\* record.
C5_DuplicateInScopeFails ==
    /\ [][AtRecord /\ ~DuplicateFree(cursor[1], CurrentRecord)
            => pc' = "idle" /\ parse_result' = "false"]_vars
    /\ [](parse_result = "true" =>
            \A k \in 1..Len(Categories) : \A i \in 1..Len(Table(k)) :
                DuplicateFree(k, Table(k)[i]))

\* C5 happens: methods 1: m() and 0x1: n() of interface K share the ordinal
\* value 1 under different names and different tokens, and Parse returned
\* false after consuming K.
C5_Witness ==
    /\ ast = File(<<InterfaceSameOrdinal>>)
    /\ parse_result = "false"
    /\ Len(interface_infos_) = 1
    /\ interface_infos_[1].methods[1].ordinal.literal
            # interface_infos_[1].methods[2].ordinal.literal
    /\ interface_infos_[1].methods[1].ordinal.value
            = interface_infos_[1].methods[2].ordinal.value
    /\ history = <<Call("RegisterTypeName", "K", TRUE)>>

\* C6: scopes do not outlive the list they check: the step that resolves a
\* struct or an interface succeeds whenever that record alone repeats no
\* name in any of its scopes and all its types resolve, whatever the other
\* records hold. Structs B and C both have a member x; interfaces I and J
\* both have a method m with ordinal 1, both methods of I have a parameter x,
\* and the request and the response of I.m both have a parameter x: Parse
\* returns true for each pair.
C6_ScopesIndependent ==
    /\ [][/\ AtRecord
          /\ cursor[1] \in {3, 4}
          /\ DuplicateFree(cursor[1], CurrentRecord)
          /\ TypesResolve(cursor[1], CurrentRecord)
          => pc' = "resolve"]_vars
    /\ [](FirstParseOf(<<StructB, StructC>>) /\ parse_result # "running"
            => parse_result = "true")
    /\ [](FirstParseOf(<<InterfaceI, InterfaceJ>>) /\ parse_result # "running"
            => parse_result = "true")

\* C6 happens: Parse returned true for I and J, which share method names,
\* ordinals and parameter names.
C6_Witness ==
    /\ FirstParseOf(<<InterfaceI, InterfaceJ>>)
    /\ parse_result = "true"
    /\ interface_infos_[1].methods[1].name = interface_infos_[2].methods[1].name
    /\ interface_infos_[1].methods[1].ordinal.value
            = interface_infos_[2].methods[1].ordinal.value
    /\ interface_infos_[1].methods[1].parameter_list[1].name
            = interface_infos_[1].methods[2].parameter_list[1].name
    /\ interface_infos_[1].methods[1].parameter_list[1].name
            = interface_infos_[1].methods[1].maybe_response[1].name

\* ------------------------------------------------------------------------
\* Properties of ResolveType
\* ------------------------------------------------------------------------

\* ResolveType has returned.
Returned == rt_ok # "pending"

\* The size in bytes, which is also the alignment, of each primitive subtype.
PrimitiveBytes(subtype) ==
    CASE subtype \in {"Int8", "Uint8", "Bool"} -> 1
      [] subtype \in {"Int16", "Uint16"} -> 2
      [] subtype \in {"Int32", "Uint32", "Float32"} -> 4
      [] subtype \in {"Int64", "Uint64", "Float64"} -> 8

\* The shape of n bytes aligned to n bytes, without allocations.
Scalar(n) == [size |-> U64(n), alignment |-> U64(n), allocations |-> <<>>]

\* C7: resolving a primitive type succeeds and yields 1, 2, 4 or 8 bytes,
\* aligned to as many, by its subtype (int8, uint8, bool: 1; int16, uint16:
\* 2; int32, uint32, float32: 4; int64, uint64, float64: 8); resolving a
\* handle succeeds and yields 4 bytes aligned to 4; none has an allocation.
C7_PrimitiveShapes ==
    Returned =>
        /\ rt_type.kind = "Primitive" =>
                rt_ok = "true" /\ rt_out = Scalar(PrimitiveBytes(rt_type.subtype))
        /\ rt_type.kind = "Handle" => rt_ok = "true" /\ rt_out = Scalar(4)

\* C7 happens: bool resolved to one byte.
C7_Witness ==
    /\ rt_type = PrimitiveType("Bool")
    /\ rt_ok = "true"
    /\ rt_out.size = U64(1)
    /\ rt_out.alignment = U64(1)

\* The element of the array or vector rt_type, resolved.
ElementResolved == ResolveType(rt_type.element_type, registered_types_, TypeShape0)

\* The numeric literals that denote a count of at least 1 that a uint64_t
\* holds.
CountsFrom1 ==
    {NumericConstant(d) : d \in {Lit1, Lit2, Lit4, Lit5, LitHex10, Lit2p61, LitInt64Max,
                                 Lit2p63, LitUint64Max}}

\* C8: an array of a resolvable element type with a literal count N >= 1
\* resolves to size = size(T) * N (the product of the two numbers),
\* alignment = alignment(T) and no allocation; a count of 0 is rejected;
\* array<uint32>:4 is 16 bytes aligned to 4.
C8_ArrayShape ==
    Returned /\ rt_type.kind = "Array" =>
        /\ rt_type.element_count = NumericConstant(Lit0) => rt_ok = "false"
        /\ ElementResolved.ok /\ rt_type.element_count \in CountsFrom1 =>
            /\ rt_ok = "true"
            /\ rt_out.size \o Zeros(WordLimbs)
                    = MulWide(ElementResolved.typeshape.size,
                              ParseIntegerConstant(rt_type.element_count, "uint64_t").value)
            /\ rt_out.alignment = ElementResolved.typeshape.alignment
            /\ rt_out.allocations = <<>>
        /\ rt_type = ArrayType(Uint32, NumericConstant(Lit4)) =>
                rt_ok = "true" /\ rt_out = [size |-> U64(16), alignment |-> U64(4),
                                            allocations |-> <<>>]

\* The bounds that denote a strictly positive integer an int64_t holds; an
\* identifier evaluates to IdentifierPlaceholder.
PositiveBounds ==
    {NumericConstant(d) : d \in {Lit1, Lit2, Lit4, Lit5, LitHex10, Lit2p61, LitInt64Max}}
    \cup {IdentifierConstant("N"), IdentifierConstant("A")}

\* The bounds that are zero, negative, no integer, or outside int64_t.
RejectedBounds ==
    {NumericConstant(d) : d \in {Lit0, LitMinus1, LitEmpty, Lit2p63, LitUint64Max, Lit2p64}}
    \cup {LiteralConstant([kind |-> "String"]), LiteralConstant([kind |-> "True"])}

\* C9: a vector or string with an explicit bound resolves only if the bound
\* is a strictly positive integer: 0, a negative number, a literal that is
\* no number and a number outside int64_t are rejected; one with a positive
\* bound or with no bound resolves whenever its element type does (a string
\* has none), and without a bound nothing in the result bounds it.
C9_BoundMustBePositive ==
    Returned /\ rt_type.kind \in {"Vector", "String"} =>
        /\ rt_type.maybe_element_count \in RejectedBounds => rt_ok = "false"
        /\ rt_ok = "true" =>
                \/ rt_type.maybe_element_count = Null
                \/ rt_type.maybe_element_count \in PositiveBounds
        /\ /\ rt_type.kind = "Vector" => ElementResolved.ok
           /\ \/ rt_type.maybe_element_count = Null
              \/ rt_type.maybe_element_count \in PositiveBounds
           => rt_ok = "true"
        /\ rt_ok = "true" /\ rt_type.maybe_element_count = Null =>
                \A i \in 1..Len(rt_out.allocations) : rt_out.allocations[i].bound = SizeMax

\* C9 happens: a vector of handles bounded by 2^63, one more than an
\* int64_t holds, was rejected.
C9_Witness ==
    /\ rt_type = VectorType(HandleType, NumericConstant(Lit2p63))
    /\ rt_ok = "false"

\* C10: a resolved vector has exactly one allocation, whose payload is the
\* resolved shape of its element type and whose bound is the explicit bound,
\* or SizeMax when there is none; vector<uint8>:5 has an allocation of bound
\* 5 over the shape (1, 1).
C10_VectorAllocation ==
    Returned /\ rt_type.kind = "Vector" /\ rt_ok = "true" =>
        /\ Len(rt_out.allocations) = 1
        /\ rt_out.allocations[1].typeshape = ElementResolved.typeshape
        /\ rt_out.allocations[1].bound
                = IF rt_type.maybe_element_count = Null THEN SizeMax
                  ELSE ParseIntegerConstant(rt_type.maybe_element_count, "int64_t").value

\* ------------------------------------------------------------------------
\* Properties of the shapes Resolve records
\* ------------------------------------------------------------------------

\* The resolved shapes of the types of a list of members.
MemberShapes(members) ==
    [i \in 1..Len(members) |->
        ResolveType(members[i].type, registered_types_, TypeShape0).typeshape]

RECURSIVE MaxWord(_, _, _)
\* The largest of acc and the words of the sequence words from words[i] on.
MaxWord(words, i, acc) ==
    IF i > Len(words) THEN acc
    ELSE MaxWord(words, i + 1, IF Less(acc, words[i]) THEN words[i] ELSE acc)

\* size rounded up to a multiple of alignment (a power of two), as a number:
\* one limb wider than a word, so that it holds a result of 2^64.
RoundUpWide(size, alignment) ==
    And(AddLimbs(size, Pred(alignment), 0, 1), Not(Pred(alignment)) \o <<LimbBase - 1>>)

\* The shape the fold over members yields.
FoldedShape(members) ==
    ResolveUnionMembers(members, 1, {}, TypeShape0, registered_types_, <<>>).typeshape

\* C11: the shape recorded for a resolved union has alignment = the largest
\* alignment of its members and size = the largest size of its members
\* rounded up (as a number) to a multiple of that alignment, and folding the
\* members in any other order yields the same shape; union { uint8; uint64 }
\* is 8 bytes aligned to 8.
C11_UnionShape ==
    parse_result = "true" /\ Len(union_infos_) = 1 /\ union_infos_[1].members # <<>> =>
        LET members == union_infos_[1].members
            shapes == MemberShapes(members)
            alignment == MaxWord([i \in 1..Len(members) |-> shapes[i].alignment], 1, U64(1))
            size == MaxWord([i \in 1..Len(members) |-> shapes[i].size], 1, U64(0))
        IN  /\ union_infos_[1].name \in DOMAIN resolved_types_
            /\ resolved_types_[union_infos_[1].name].alignment = alignment
            /\ resolved_types_[union_infos_[1].name].size \o <<0>>
                    = RoundUpWide(size, alignment)
            /\ resolved_types_[union_infos_[1].name].allocations = <<>>
            /\ \A p \in Permutations(1..Len(members)) :
                    FoldedShape([i \in 1..Len(members) |-> members[p[i]]])
                        = resolved_types_[union_infos_[1].name]
            /\ ast = File(<<UnionOf(<<Uint8, Uint64>>)>>) =>
                    resolved_types_[union_infos_[1].name]
                        = [size |-> U64(8), alignment |-> U64(8), allocations |-> <<>>]

\* size rounded up to a multiple of alignment, for sizes far below 2^64.
RoundUp(size, alignment) == And(Add(size, Pred(alignment)), Not(Pred(alignment)))

RECURSIVE LayoutEnd(_, _, _)
\* The end offset of the last of the members shapes[i], ..., each placed at
\* the next multiple of its alignment at or after offset.
LayoutEnd(shapes, i, offset) ==
    IF i > Len(shapes) THEN offset
    ELSE LayoutEnd(shapes, i + 1,
                   Add(RoundUp(offset, shapes[i].alignment), shapes[i].size))

\* C12: after a successful Parse every struct has a recorded shape with the
\* aligned field layout: alignment = the largest alignment of its members,
\* size = the end offset of the last member, the members placed in declared
\* order at multiples of their alignments, rounded up to that alignment.
C12_StructLayout ==
    parse_result = "true" =>
        \A s \in 1..Len(struct_infos_) :
            LET shapes == MemberShapes(struct_infos_[s].members)
                alignment ==
                    MaxWord([i \in 1..Len(shapes) |-> shapes[i].alignment], 1, U64(1))
            IN  /\ struct_infos_[s].name \in DOMAIN resolved_types_
                /\ resolved_types_[struct_infos_[s].name].alignment = alignment
                /\ resolved_types_[struct_infos_[s].name].size
                        = RoundUp(LayoutEnd(shapes, 1, U64(0)), alignment)

\* The subtypes that are integers.
IntegerSubtypes ==
    {"Int8", "Int16", "Int32", "Int64", "Uint8", "Uint16", "Uint32", "Uint64"}

\* What the step that resolves an enum does.
EnumStep ==
    AtRecord /\ cursor[1] = 2 =>
        IF CurrentRecord.type.subtype \in IntegerSubtypes
        THEN /\ pc' = "resolve"
             /\ CurrentRecord.name \in DOMAIN resolved_types_'
             /\ resolved_types_'[CurrentRecord.name]
                    = Scalar(PrimitiveBytes(CurrentRecord.type.subtype))
        ELSE pc' = "idle" /\ parse_result' = "false"

\* C13: resolving an enum succeeds exactly when its underlying type is one
\* of int8, int16, int32, int64, uint8, uint16, uint32, uint64 and fails for
\* bool, float32 and float64; on success the shape recorded for the enum's
\* name is the shape of that primitive (enum : uint16 is 2 bytes aligned to
\* 2).
C13_EnumSubtype == [][EnumStep]_vars

\* The names of the interfaces the Module holds.
DeclaredInterfaces == {interface_infos_[i].name : i \in 1..Len(interface_infos_)}

\* C14: Request<T> resolves, to 4 bytes aligned to 4, if and only if T is
\* the name of a declared interface; it fails when T is not registered and
\* when T names a declaration that is not an interface.
C14_RequestNeedsInterface ==
    Returned /\ rt_type.kind = "Request" =>
        /\ rt_ok = "true" <=> rt_type.subtype \in DeclaredInterfaces
        /\ rt_ok = "true" => rt_out = Scalar(4)

OrdinalToken == ast.interface_declaration_list[1].method_members[1].ordinal

\* A non-empty string of decimal digits, or 0x and hexadecimal digits.
WellFormed(s) ==
    \/ Len(s) >= 1 /\ \A i \in 1..Len(s) : DigitValue(s[i]) < 10
    \/ /\ Len(s) >= 3
       /\ s[1] = "0"
       /\ s[2] = "x"
       /\ \A i \in 3..Len(s) : DigitValue(s[i]) < 16

\* Whether the digits of a well-formed token make a value of 32 bits.
FitsUint32(s) ==
    ~ScanDigits(s, 1).overflow /\ ~Less(Uint32Max, ScanDigits(s, 1).magnitude)

\* C16: a method ordinal is accepted only if its token is a well-formed,
\* non-empty digit string whose value fits in 32 bits unsigned, and the
\* stored ordinal is that value; an empty or malformed token or a larger
\* value makes ConsumeInterfaceDeclaration fail, and then the interface name
\* is not registered and the interface is not in the table.
C16_OrdinalWellFormed ==
    /\ interface_infos_ # <<>> =>
        /\ OrdinalToken # Null
        /\ WellFormed(OrdinalToken.literal)
        /\ FitsUint32(OrdinalToken.literal)
        /\ interface_infos_[1].methods[1].ordinal.value
               = ScanDigits(OrdinalToken.literal, 1).magnitude
    /\ parse_result = "false" =>
        "I" \notin registered_types_ /\ interface_infos_ = <<>>

\* ------------------------------------------------------------------------
\* Properties of every TypeShape
\* ------------------------------------------------------------------------

\* The shapes of the elements of the members that are arrays or vectors.
ElementShapes(members) ==
    {ResolveType(members[i].type.element_type, registered_types_, TypeShape0).typeshape :
        i \in {j \in 1..Len(members) : members[j].type.kind \in {"Array", "Vector"}}}

RECURSIVE UnionFold(_, _)
\* The fold of UnionShape over the first k of the shapes, from TypeShape().
UnionFold(shapes, k) ==
    IF k = 0 THEN TypeShape0 ELSE UnionShape(UnionFold(shapes, k - 1), shapes[k])

\* The shapes the resolution of the union info constructs: those of its
\* member types, of their elements, and the fold after each member.
ConstructedShapes(union_info) ==
    LET shapes == MemberShapes(union_info.members)
    IN  {shapes[i] : i \in 1..Len(shapes)}
        \cup ElementShapes(union_info.members)
        \cup {UnionFold(shapes, k) : k \in 0..Len(shapes)}

\* C17: every TypeShape constructed or stored during a Parse (what the
\* resolvers return, every step of a union's fold, array shapes, every
\* value of the resolved-shape map) has an alignment that is not zero and
\* is a power of two: the assertion of the constructor holds.
C17_AlignmentPowerOfTwo ==
    /\ \A name \in DOMAIN resolved_types_ :
            MustBePowerOf2(resolved_types_[name].alignment)
    /\ pc = "idle" =>
            \A i \in 1..Len(union_infos_) :
                \A typeshape \in ConstructedShapes(union_infos_[i]) :
                    MustBePowerOf2(typeshape.alignment)

\* A union of members with alignments 1, 4 and 8, one of them an array, was
\* resolved and stored.
C17_Witness ==
    /\ parse_result = "true"
    /\ Len(union_infos_) = 1
    /\ union_infos_[1].members
           = <<[type |-> Bytes5, name |-> "a"], [type |-> Uint32, name |-> "b"],
               [type |-> Uint64, name |-> "c"]>>
    /\ resolved_types_["U"].alignment = U64(8)

\* ------------------------------------------------------------------------
\* Properties of the Resolve pass
\* ------------------------------------------------------------------------

\* What the Resolve*Info call on the record Resolve stands at returns.
CurrentOutcome ==
    CASE cursor[1] = 1 ->
            ResolveConstInfo(CurrentRecord, registered_types_, resolved_types_)
      [] cursor[1] = 2 ->
            ResolveEnumInfo(CurrentRecord, registered_types_, resolved_types_)
      [] cursor[1] = 3 ->
            ResolveInterfaceInfo(CurrentRecord, registered_types_, resolved_types_)
      [] cursor[1] = 4 ->
            ResolveStructInfo(CurrentRecord, registered_types_, resolved_types_)
      [] cursor[1] = 5 ->
            ResolveUnionInfo(CurrentRecord, registered_types_, resolved_types_)

\* The names of the records that follow the one Resolve stands at, in the
\* order const, enum, interface, struct, union and in table order inside a
\* category.
FollowingNames ==
    UNION {{Table(k)[i].name : i \in {j \in 1..Len(Table(k)) :
                                        k > cursor[1] \/ j > cursor[2]}} :
           k \in cursor[1]..Len(Categories)}

\* The names RegisterResolvedType was called with in the calls.
RegisteredIn(calls) ==
    {calls[i].name : i \in {j \in 1..Len(calls) : calls[j].call = "RegisterResolvedType"}}

\* One step of Resolve: a failed declaration ends the pass with failure, with
\* no following declaration resolved or inserted; a resolved declaration is
\* followed by the next one in order; a step inserts at most the name of its
\* own declaration.
ResolveStep ==
    AtRecord =>
        /\ ~CurrentOutcome.ok =>
            /\ pc' = "idle"
            /\ parse_result' = "false"
            /\ cursor' = NoCursor
            /\ RegisteredIn(history') \cap FollowingNames = {}
        /\ CurrentOutcome.ok =>
            /\ pc' = "resolve"
            /\ cursor' = Position(cursor[1], cursor[2] + 1)
        /\ DOMAIN resolved_types_' \ DOMAIN resolved_types_ \subseteq {CurrentRecord.name}
        /\ (DOMAIN resolved_types_' \cap FollowingNames)
               \subseteq DOMAIN resolved_types_

\* Resolve calls nothing after it returned.
ReturnedStep == pc = "idle" => history' = history \/ history' = <<>>

\* C18: Resolve aborts at the first failure: when the resolution of a
\* declaration fails, Resolve returns failure at once, and no declaration
\* that follows it in the order const, enum, interface, struct, union (table
\* order inside a category) is resolved or inserted into the resolved-shape
\* map.
C18_ResolveAbortsAtFirstFailure == [][ResolveStep /\ ReturnedStep]_vars

\* enum F : float32 failed to resolve; the union U consumed from the same
\* file was never resolved.
C18_Witness ==
    /\ pc = "idle"
    /\ parse_result = "false"
    /\ Len(enum_infos_) = 1
    /\ enum_infos_[1].name = "F"
    /\ Len(union_infos_) = 1
    /\ union_infos_[1].name = "U"
    /\ "U" \notin DOMAIN resolved_types_
    /\ \A i \in 1..Len(history) : history[i].call = "RegisterTypeName" /\ history[i].result

\* The names the Resolve pass of the current Parse inserted into the
\* resolved-shape map.
InsertedInPass ==
    {history[i].name : i \in {j \in 1..Len(history) :
        history[j].call = "RegisterResolvedType" /\ history[j].result}}

\* C19: a failed Resolve leaves no partial result: when Resolve returned
\* failure, the resolved-shape map holds no entry that was added during that
\* pass.
C19_NoPartialResult ==
    pc = "idle" /\ parse_result = "false" =>
        InsertedInPass \cap DOMAIN resolved_types_ = {}

\* C20: after a successful Parse every name held in the const, enum, struct
\* and union tables is a key of the resolved-shape map (mapped to the shape
\* computed for the declaration).
C20_EveryNameResolved ==
    pc = "idle" /\ parse_result = "true" =>
        \A k \in {1, 2, 4, 5} : \A i \in 1..Len(Table(k)) :
            Table(k)[i].name \in DOMAIN resolved_types_

\* ------------------------------------------------------------------------
\* Properties of the resolved-shape map
\* ------------------------------------------------------------------------

\* The resolved-shape map holds, for the name, the shape ResolveEnumInfo
\* computes for the enum record.
HoldsEnum(resolved, enum_info) ==
    /\ enum_info.type.subtype \in IntegerSubtypes
    /\ resolved[enum_info.name] = Scalar(PrimitiveBytes(enum_info.type.subtype))

\* The resolved-shape map holds, for the name, the shape ResolveUnionInfo
\* computes for the union record.
HoldsUnion(resolved, union_info) ==
    /\ ResolveUnionMembers(union_info.members, 1, {}, TypeShape0, registered_types_, <<>>).ok
    /\ resolved[union_info.name] = FoldedShape(union_info.members)

\* Every key of the map names a record whose resolution computed the value.
ComputedOnly(resolved) ==
    \A name \in DOMAIN resolved :
        \/ \E i \in 1..Len(enum_infos_) :
                enum_infos_[i].name = name /\ HoldsEnum(resolved, enum_infos_[i])
        \/ \E i \in 1..Len(union_infos_) :
                union_infos_[i].name = name /\ HoldsUnion(resolved, union_infos_[i])

\* C21: in every state reachable by Parse and Dump calls, each key of the
\* resolved-shape map is the name of a declaration whose resolution
\* succeeded, with the shape that resolution computed as its value; there is
\* no entry for a name that was never resolved successfully.
C21_MapHoldsResolvedOnly == ComputedOnly(resolved_types_)

\* ------------------------------------------------------------------------
\* Properties of Scope
\* ------------------------------------------------------------------------

\* The keys of the Insert calls before call i.
InsertedBefore(i) == {scope_calls[j][1] : j \in 1..(i - 1)}

\* Every Insert so far returned true exactly when its key had not been
\* inserted before, and the scope holds exactly the keys inserted.
InsertsAnswered ==
    /\ \A i \in 1..Len(scope_calls) :
            scope_calls[i][2] <=> scope_calls[i][1] \notin InsertedBefore(i)
    /\ scope_object = InsertedBefore(Len(scope_calls) + 1)

\* An Insert that returns false leaves the scope as it was.
FailedInsertStep ==
    scope_calls' # scope_calls /\ ~scope_calls'[Len(scope_calls')][2] =>
        scope_object' = scope_object

\* C22: Scope::Insert(key) returns success if and only if the key was not
\* inserted into that Scope before; an Insert that fails leaves the scope
\* unchanged; after any Insert(key) the key is present, so a second Insert
\* of the same key on the same scope always fails.
C22_ScopeInsert == []InsertsAnswered /\ [][FailedInsertStep]_vars

\* a and b were inserted, then a was inserted again and refused.
C22_Witness ==
    /\ scope_calls = <<<<"a", TRUE>>, <<"b", TRUE>>, <<"a", FALSE>>>>
    /\ scope_object = {"a", "b"}

\* ------------------------------------------------------------------------
\* Properties of the order of ConsumeFile
\* ------------------------------------------------------------------------

\* The names declaration d registers, each with the table its record goes
\* to: the nested consts, the nested enums, then d itself.
Registrations(d) ==
    IF d.node \in {"interface", "struct"}
    THEN [i \in 1..Len(d.const_members) |->
                [name |-> d.const_members[i].identifier, table |-> 1]]
         \o [i \in 1..Len(d.enum_members) |->
                [name |-> d.enum_members[i].identifier, table |-> 2]]
         \o <<[name |-> d.identifier, table |-> CategoryIndex(d.node)]>>
    ELSE <<[name |-> d.identifier, table |-> CategoryIndex(d.node)]>>

RECURSIVE RegistrationOrder(_, _)
\* The registrations of the declarations decls[i..], in order.
RegistrationOrder(decls, i) ==
    IF i > Len(decls) THEN <<>>
    ELSE Registrations(decls[i]) \o RegistrationOrder(decls, i + 1)

\* The RegisterTypeName calls of the running Parse call.
Registered == SelectSeq(history, LAMBDA c : c.call = "RegisterTypeName")

\* The names of the records of table k.
NamesIn(k) == {Table(k)[i].name : i \in 1..Len(Table(k))}

\* The RegisterTypeName calls so far follow the order of the File, a call
\* that succeeded put its record into the table of its kind, a call that
\* failed is the last one, and a Parse that got past ConsumeFile made all of
\* them with success.
ConsumedInOrder ==
    LET expected == RegistrationOrder(Declarations(ast), 1)
    IN  /\ Len(Registered) <= Len(expected)
        /\ \A i \in 1..Len(Registered) :
            /\ Registered[i].name = expected[i].name
            /\ Registered[i].result =>
                /\ Registered[i].name \in registered_types_
                /\ Registered[i].name \in NamesIn(expected[i].table)
            /\ ~Registered[i].result => i = Len(Registered) /\ parse_result = "false"
        /\ pc = "resolve" \/ parse_result = "true" =>
            /\ Len(Registered) = Len(expected)
            /\ NoRepeats([i \in 1..Len(expected) |-> expected[i].name])

\* What the step that registers a name the registry already holds does.
CollisionStep ==
    /\ pc = "consume"
    /\ Len(Registered') > Len(Registered)
    /\ \E i \in (Len(Registered) + 1)..Len(Registered') :
            Registered'[i].name \in registered_types_
    => pc' = "idle" /\ parse_result' = "false"

\* C23: ConsumeFile registers and stores declarations in the order const,
\* enum, interface, struct, union; the consts and enums nested in an
\* interface or a struct are registered before their host's own name, go to
\* the same const and enum tables and the same registry as top-level ones,
\* and so collide with a top-level or nested declaration of the same name.
C23_ConsumeOrder == [](ast # Null => ConsumedInOrder) /\ [][CollisionStep]_vars

\* struct T was registered; then the enum T nested in struct S, coming after
\* S's nested const c and before S itself, collided with it.
C23_Witness ==
    /\ parse_result = "false"
    /\ ast = File(<<StructT, StructS>>)
    /\ history = <<Call("RegisterTypeName", "T", TRUE), Call("RegisterTypeName", "c", TRUE),
                   Call("RegisterTypeName", "T", FALSE)>>
    /\ NamesIn(1) = {"c"}
    /\ NamesIn(2) = {}
    /\ NamesIn(4) = {"T"}

\* ------------------------------------------------------------------------
\* Properties of Resolve across the categories and across Parse calls
\* ------------------------------------------------------------------------

\* Parse returns true: no interface name is a key of the resolved-shape map.
ParseReturnsTrue ==
    pc = "resolve" /\ pc' = "idle" /\ parse_result' = "true" =>
        NamesIn(3)' \cap DOMAIN resolved_types_' = {}

\* The step that resolves an interface inserts nothing.
InterfaceStep == AtRecord /\ cursor[1] = 3 => resolved_types_' = resolved_types_

\* C24: Resolve never inserts an entry for an interface name into the
\* resolved-shape map: after a successful Parse no interface name is a key
\* of the map, while every parameter type of every method was resolved.
C24_NoInterfaceShape == [][InterfaceStep /\ ParseReturnsTrue]_vars

\* The running or last Parse call is the first one that was handed
\* declarations: the Module was fresh when it began.
FirstParse == ast # Null /\ budget = MaxDecls - Len(Declarations(ast))

\* The RegisterResolvedType calls of the running Parse call.
Inserted == SelectSeq(history, LAMBDA c : c.call = "RegisterResolvedType")

\* C25: in the first Parse call on a fresh Module the duplicate-key
\* rejection of RegisterResolvedType is unreachable: every
\* RegisterResolvedType call Resolve makes inserts a new key, so Resolve
\* never fails because of a duplicate insertion.
C25_NoDuplicateInsertion ==
    FirstParse => \A i \in 1..Len(Inserted) : Inserted[i].result

\* The first Parse resolved two enums and a union and inserted each.
C25_Witness ==
    /\ FirstParse
    /\ parse_result = "true"
    /\ ast = File(<<EnumE, EnumN, UnionU>>)
    /\ Inserted = <<Call("RegisterResolvedType", "E", TRUE),
                    Call("RegisterResolvedType", "N", TRUE),
                    Call("RegisterResolvedType", "U", TRUE)>>

\* ------------------------------------------------------------------------
\* Properties of identifier constants
\* ------------------------------------------------------------------------

\* The count of the array rt_type, or the bound of the vector or string
\* rt_type.
CountOrBound ==
    IF rt_type.kind = "Array" THEN rt_type.element_count ELSE rt_type.maybe_element_count

\* The value of an identifier constant, as a word.
Placeholder == U64(IdentifierPlaceholder)

\* C26: an integer constant given as an identifier evaluates successfully to
\* one fixed placeholder value, the same for every identifier and whether
\* or not the identifier is declared; so an array count or a vector or
\* string bound written as an identifier is never rejected, and an array
\* with an identifier count has size = element size * the placeholder.
C26_IdentifierPlaceholder ==
    Returned /\ rt_type.kind \in {"Array", "Vector", "String"}
             /\ CountOrBound.kind = "Identifier" =>
        /\ \A IntType \in {"uint32_t", "uint64_t", "int64_t"} :
                ParseIntegerConstant(CountOrBound, IntType)
                    = [ok |-> TRUE, value |-> Placeholder, negative |-> FALSE]
        /\ rt_type.kind = "String" => rt_ok = "true"
        /\ rt_type.kind \in {"Array", "Vector"} => (rt_ok = "true" <=> ElementResolved.ok)
        /\ rt_type.kind = "Array" /\ rt_ok = "true" =>
            /\ rt_out.size \o Zeros(WordLimbs)
                    = MulWide(ElementResolved.typeshape.size, Placeholder)
            /\ rt_out.alignment = ElementResolved.typeshape.alignment

\* array<uint32>:N, with no N declared anywhere, resolved to 4 * 23 = 92
\* bytes.
C26_Witness ==
    /\ rt_type = ArrayType(Uint32, IdentifierConstant("N"))
    /\ registered_types_ = {}
    /\ rt_ok = "true"
    /\ rt_out.size = U64(92)

\* ------------------------------------------------------------------------
\* Termination of Parse
\* ------------------------------------------------------------------------

\* Parse returned true or false.
ParseReturned == pc = "idle" /\ parse_result \in {"true", "false"}

\* C27: Parse terminates with a definitive success or failure for every
\* finite AST, also for files whose declarations refer to themselves or to
\* each other in a cycle: resolving an identifier type does not descend into
\* the declaration it names.
C27_ParseTerminates == <>ParseReturned

\* The Parse of struct A { B b; } and struct B { A a; } returned true.
C27_Witness ==
    /\ ParseReturned
    /\ parse_result = "true"
    /\ ast = File(<<StructAB, StructBA>>)

\* ------------------------------------------------------------------------
\* Properties of the registry and the tables
\* ------------------------------------------------------------------------

\* The tables of the Module value m, in the order of Categories.
TablesOf(m) ==
    <<m.const_infos_, m.enum_infos_, m.interface_infos_, m.struct_infos_, m.union_infos_>>

\* In the Module value m the registry is the set of the names of the records
\* of the five tables, and there are as many records as registered names.
RegistryMatchesTables(m) ==
    /\ m.registered_types_
           = UNION {{TablesOf(m)[k][i].name : i \in 1..Len(TablesOf(m)[k])} : k \in 1..5}
    /\ Cardinality(m.registered_types_)
           = Len(m.const_infos_) + Len(m.enum_infos_) + Len(m.interface_infos_)
             + Len(m.struct_infos_) + Len(m.union_infos_)

\* The Module after the nested const and enum declarations of the next
\* interface or struct of the File were consumed, before the host itself.
AfterNested ==
    IF pc = "consume" /\ Declarations(file) # <<>>
       /\ Head(Declarations(file)).node \in {"interface", "struct"}
    THEN ConsumeNested(ModuleState, Head(Declarations(file)))
    ELSE ModuleState

\* C28: after every Consume*Declaration call, successful or failed, the
\* registry is exactly the set of the names of the records held in the five
\* tables, and the number of records is the size of the registry: a name is
\* registered if and only if its record was stored.
C28_RegistryMatchesTables ==
    RegistryMatchesTables(ModuleState) /\ RegistryMatchesTables(AfterNested)

\* ConsumeInterfaceDeclaration failed on the ordinal of interface M after it
\* had consumed M's nested const c and enum I: c and I are registered and
\* stored, M is neither.
C28_Witness ==
    /\ parse_result = "false"
    /\ ast = File(<<InterfaceM>>)
    /\ registered_types_ = {"c", "I"}
    /\ NamesIn(1) = {"c"}
    /\ NamesIn(2) = {"I"}
    /\ NamesIn(3) = {}

\* ------------------------------------------------------------------------
\* Properties of a Module that parses several files
\* ------------------------------------------------------------------------

\* Whether record info of table k resolves when nothing was resolved before.
ResolvesAlone(k, info) ==
    CASE k = 1 -> ResolveConstInfo(info, registered_types_, EmptyMap).ok
      [] k = 2 -> ResolveEnumInfo(info, registered_types_, EmptyMap).ok
      [] k = 3 -> ResolveInterfaceInfo(info, registered_types_, EmptyMap).ok
      [] k = 4 -> ResolveStructInfo(info, registered_types_, EmptyMap).ok
      [] k = 5 -> ResolveUnionInfo(info, registered_types_, EmptyMap).ok

\* The records that earlier files left in the tables are all valid.
EarlierFilesValid ==
    \A k \in 1..Len(Categories) : \A i \in 1..Len(Table(k)) :
        Table(k)[i].name \notin DeclaredNames(ast) => ResolvesAlone(k, Table(k)[i])

\* Resolve stands at a record of the file of the running Parse.
AtOwnRecord == CurrentRecord.name \in DeclaredNames(ast)

\* The step of Resolve that ends a Parse with failure stands at a record of
\* the file being parsed, not at a valid record of an earlier file.
LaterParseStep ==
    AtRecord /\ EarlierFilesValid /\ pc' = "idle" /\ parse_result' = "false" => AtOwnRecord

\* C29: parsing several files into one Module is sound: a second Parse on a
\* Module whose first Parse succeeded returns success whenever the second
\* file alone is valid and declares no name of the first file, also when the
\* first file declared an enum or a union; the declarations of earlier files
\* are not resolved and registered a second time.
C29_SecondParseSound == [][LaterParseStep]_vars

\* ------------------------------------------------------------------------
\* Properties of the arithmetic of ArrayTypeShape
\* ------------------------------------------------------------------------

\* The count that ResolveArrayType read for the array it was called on.
AcceptedCount == ParseIntegerConstant(rt_type.element_count, "uint64_t").value

\* The product of the element's size and the count as a number of twice the
\* width of a word.
ExactProduct == MulWide(ElementResolved.typeshape.size, AcceptedCount)

\* The product needs no more than one word.
FitsWord(wide) == \A i \in (WordLimbs + 1)..(2 * WordLimbs) : wide[i] = 0

\* C30: the size of a resolved array equals the mathematical product of the
\* element's size and N for every accepted count N and every nesting of
\* arrays: the multiplication in ArrayTypeShape never wraps.
C30_ArrayNeverWraps ==
    Returned /\ rt_type.kind = "Array" /\ rt_ok = "true" =>
        /\ FitsWord(ExactProduct)
        /\ \A i \in 1..WordLimbs : rt_out.size[i] = ExactProduct[i]

====
